---- MODULE Spec2Model ----
(***************************************************************************)
(* Business-permit verification pipeline of backend/image_verification.py  *)
(* (class ImageVerificationSystem).                                        *)
(*                                                                         *)
(* Numbers.  Confidences are exact decimals, held as integer multiples of  *)
(* 1/Scale (the code computes them in binary floating point; the model     *)
(* keeps the decimal values the literals denote).  Name similarities are   *)
(* exact fractions <<num, den>>.                                           *)
(*                                                                         *)
(* Text.  A name is a sequence of one-character strings.  None and ''      *)
(* are both the empty sequence: the code only ever tests names for         *)
(* truthiness.                                                             *)
(***************************************************************************)
EXTENDS Integers, Sequences, FiniteSets, TLC

\* ------------------------------------------------------------------ bounds
\* Longest applicant / registry name explored by the name specifications.
MaxNameLen == 5
\* Longest name explored where two names are compared.
MaxPairLen == 3

\* ------------------------------------------------------------------ units
Scale == 1500 * 1000
Pct(n) == n * (Scale \div 100)             \* n hundredths
TenK(n) == n * (Scale \div 10000)          \* n ten-thousandths
Milli(n) == n * (Scale \div 1000)          \* n thousandths
Min(x, y) == IF x <= y THEN x ELSE y

\* ------------------------------------------------------------- characters
Letters == {"a", "f", "m", "r"}
Upper == {"R"}
Spaces == {" "}
Punct == {"-"}
Chars == Letters \cup Upper \cup Spaces \cup Punct

\* str.lower() on one character
LowerChar(c) == IF c = "R" THEN "r" ELSE c
\* \w of the re module: letters, digits, underscore
IsWordChar(c) == c \in Letters \cup Upper
\* \s of the re module
IsSpace(c) == c \in Spaces
\* [a-z0-9] of the re module
IsLowerAlnum(c) == c \in Letters

NoName == << >>
Names(n) == UNION {[1..k -> Chars] : k \in 0..n}

\* str.lower()
Lower(s) == [i \in 1..Len(s) |-> LowerChar(s[i])]

RECURSIVE LStrip(_)
LStrip(s) == IF s # << >> /\ IsSpace(Head(s)) THEN LStrip(Tail(s)) ELSE s

RECURSIVE RStrip(_)
RStrip(s) ==
    IF s # << >> /\ IsSpace(s[Len(s)]) THEN RStrip(SubSeq(s, 1, Len(s) - 1)) ELSE s

\* str.strip()
Strip(s) == RStrip(LStrip(s))

\* The suffix words _normalize_name removes, in the order of the source list.
SuffixWords ==
    << <<"t","r","a","d","i","n","g">>,
       <<"e","n","t","e","r","p","r","i","s","e","s">>,
       <<"e","n","t","e","r","p","r","i","s","e">>,
       <<"f","a","r","m">>,
       <<"f","a","r","m","s">>,
       <<"a","g","r","i">>,
       <<"a","g","r","i","c","u","l","t","u","r","a","l">>,
       <<"p","r","o","d","u","c","t","s">>,
       <<"s","t","o","r","e">>,
       <<"s","h","o","p">> >>

\* \b<w>\b matches s at position i
WordMatchesAt(s, w, i) ==
    /\ i + Len(w) - 1 <= Len(s)
    /\ SubSeq(s, i, i + Len(w) - 1) = w
    /\ (i = 1 \/ ~IsWordChar(s[i - 1]))
    /\ (i + Len(w) > Len(s) \/ ~IsWordChar(s[i + Len(w)]))

RECURSIVE RemoveWordFrom(_, _, _)
RemoveWordFrom(s, w, i) ==
    IF i > Len(s) THEN << >>
    ELSE IF WordMatchesAt(s, w, i) THEN RemoveWordFrom(s, w, i + Len(w))
    ELSE <<s[i]>> \o RemoveWordFrom(s, w, i + 1)

\* re.sub(rf'\b{w}\b', '', s)
RemoveWord(s, w) == RemoveWordFrom(s, w, 1)

RECURSIVE RemoveSuffixWords(_, _)
RemoveSuffixWords(s, k) ==
    IF k > Len(SuffixWords) THEN s
    ELSE RemoveSuffixWords(RemoveWord(s, SuffixWords[k]), k + 1)

\* re.sub(r'[^a-z0-9\s]', '', s)
KeepAlnumSpace(s) == SelectSeq(s, LAMBDA c : IsLowerAlnum(c) \/ IsSpace(c))

RECURSIVE CollapseSpaces(_)
\* re.sub(r'\s+', ' ', s)
CollapseSpaces(s) ==
    IF s = << >> THEN << >>
    ELSE IF IsSpace(Head(s))
         THEN <<" ">> \o CollapseSpaces(LStrip(s))
         ELSE <<Head(s)>> \o CollapseSpaces(Tail(s))

_normalize_name(name) ==
    IF name = NoName THEN << >>
    ELSE Strip(CollapseSpaces(KeepAlnumSpace(RemoveSuffixWords(Strip(Lower(name)), 1))))

\* ------------------------------------------------------- difflib.SequenceMatcher
\* Fractions <<num, den>> with den > 0.
FracLess(x, y) == x[1] * y[2] < y[1] * x[2]
FracGeq(x, y) == ~FracLess(x, y)
FracEq(x, y) == x[1] * y[2] = y[1] * x[2]
FracAdd(x, y) == <<x[1] * y[2] + y[1] * x[2], x[2] * y[2]>>

RECURSIVE CommonLen(_, _, _, _, _, _)
\* length of the common run of a[i..ahi] and b[j..bhi]
CommonLen(a, b, i, j, ahi, bhi) ==
    IF i <= ahi /\ j <= bhi /\ a[i] = b[j]
    THEN 1 + CommonLen(a, b, i + 1, j + 1, ahi, bhi)
    ELSE 0

\* SequenceMatcher.find_longest_match without junk: the longest block, the
\* earliest in a among the longest, the earliest in b among those.
\* x is a better block than y: longer, or as long and earlier
BetterBlock(x, y) ==
    \/ x[3] > y[3]
    \/ /\ x[3] = y[3]
       /\ \/ x[1] < y[1]
          \/ x[1] = y[1] /\ x[2] <= y[2]

BestBlock(blocks, alo, blo) ==
    IF blocks = {} THEN <<alo, blo, 0>>
    ELSE CHOOSE x \in blocks : \A y \in blocks : BetterBlock(x, y)

find_longest_match(a, b, alo, ahi, blo, bhi) ==
    BestBlock({<<i, j, CommonLen(a, b, i, j, ahi, bhi)>> : i \in alo..ahi, j \in blo..bhi},
              alo, blo)

RECURSIVE MatchedChars(_, _, _, _, _, _)
RECURSIVE MatchedAround(_, _, _, _, _, _, _)
\* sum of the sizes of SequenceMatcher.get_matching_blocks()
MatchedChars(a, b, alo, ahi, blo, bhi) ==
    IF alo > ahi \/ blo > bhi THEN 0
    ELSE MatchedAround(a, b, alo, ahi, blo, bhi,
                       find_longest_match(a, b, alo, ahi, blo, bhi))

\* the block m, then the blocks to its left and to its right
MatchedAround(a, b, alo, ahi, blo, bhi, m) ==
    IF m[3] = 0 THEN 0
    ELSE m[3] + MatchedChars(a, b, alo, m[1] - 1, blo, m[2] - 1)
              + MatchedChars(a, b, m[1] + m[3], ahi, m[2] + m[3], bhi)

\* SequenceMatcher(None, a, b).ratio() = 2*M/T
SequenceRatio(a, b) ==
    IF Len(a) + Len(b) = 0 THEN <<1, 1>>
    ELSE <<2 * MatchedChars(a, b, 1, Len(a), 1, Len(b)), Len(a) + Len(b)>>

\* Python's `a in b` on strings
Contains(b, a) ==
    \E i \in 1..(Len(b) - Len(a) + 1) : SubSeq(b, i, i + Len(a) - 1) = a

\* _name_similarity from the two normalized names on
NormalizedSimilarity(a, b) ==
    IF a = << >> \/ b = << >> THEN <<0, 1>>
    ELSE IF a = b THEN <<1, 1>>
    ELSE IF Contains(b, a) \/ Contains(a, b) THEN <<9, 10>>
    ELSE SequenceRatio(a, b)

_name_similarity(name_a, name_b) ==
    IF name_a = NoName \/ name_b = NoName THEN <<0, 1>>
    ELSE NormalizedSimilarity(_normalize_name(name_a), _normalize_name(name_b))

\* variant of Round3 that truncates
Round3_Truncated(x) == (x[1] * 1000) \div x[2]
\* round(x, 3) of the fraction x, in thousandths (ties to even, as Python rounds
\* a value that is exactly representable)
Round3(x) ==
    LET q == (x[1] * 1000) \div x[2]
        r == (x[1] * 1000) % x[2]
    IN  IF 2 * r > x[2] THEN q + 1
        ELSE IF 2 * r < x[2] THEN q
        ELSE IF q % 2 = 0 THEN q ELSE q + 1

\* ------------------------------------------------------------ optional values
\* Python None for a field that holds a record or a text.
Null == [null |-> TRUE]
\* A nullable bool (business_name_match, owner_name_match)
NullFlag == "null"
Flag(b) == IF b THEN "true" ELSE "false"

\* ------------------------------------------------------- 1. image quality
\* An image as check_image_quality sees it: whether cv2.imread decodes it, its
\* width and height, the variance of its Laplacian, its mean brightness, and
\* whether OpenCV raises while measuring it.
GoodImage ==
    [readable |-> TRUE, w |-> 200, h |-> 200, lap_var |-> 30, brightness |-> 30,
     cv_error |-> FALSE]

MSG_QUALITY_OK == "Image quality OK"
MSG_INVALID == "Invalid image file"
MSG_TOO_SMALL == "Image too small. Please upload at least 400x300."
MSG_BLURRY == "Image is too blurry. Please take a clearer photo."
MSG_BRIGHTNESS == "Image brightness is poor. Ensure good lighting."
MSG_QUALITY_ERROR == "Quality check error"

\* variant of check_image_quality that looks at the brightness before the blur
check_image_quality_BrightnessFirst(img) ==
    IF img.cv_error THEN <<FALSE, MSG_QUALITY_ERROR>>
    ELSE IF ~img.readable THEN <<FALSE, MSG_INVALID>>
    ELSE IF img.h < 200 \/ img.w < 200 THEN <<FALSE, MSG_TOO_SMALL>>
    ELSE IF img.brightness < 30 \/ img.brightness > 230 THEN <<FALSE, MSG_BRIGHTNESS>>
    ELSE IF img.lap_var < 30 THEN <<FALSE, MSG_BLURRY>>
    ELSE <<TRUE, MSG_QUALITY_OK>>
check_image_quality(img) ==
    IF img.cv_error THEN <<FALSE, MSG_QUALITY_ERROR>>
    ELSE IF ~img.readable THEN <<FALSE, MSG_INVALID>>
    ELSE IF img.h < 200 \/ img.w < 200 THEN <<FALSE, MSG_TOO_SMALL>>
    ELSE IF img.lap_var < 30 THEN <<FALSE, MSG_BLURRY>>
    ELSE IF img.brightness < 30 \/ img.brightness > 230 THEN <<FALSE, MSG_BRIGHTNESS>>
    ELSE <<TRUE, MSG_QUALITY_OK>>

\* --------------------------------------------------------- 2. ML classifier
\* self.ml_model after __init__: no model, a model with predict_proba, or a
\* model that only makes hard predictions.
NoModel == "none"
ProbaModel == "predict_proba"
HardModel == "predict"
ModelKinds == {ProbaModel, HardModel}

\* _load_ml_model: joblib importable, model file present, joblib.load succeeds
_load_ml_model(joblib_available, file_exists, load_ok, kind) ==
    IF ~joblib_available THEN NoModel
    ELSE IF ~file_exists THEN NoModel
    ELSE IF ~load_ok THEN NoModel
    ELSE kind

MLUnavailable ==
    [available |-> FALSE, is_permit |-> FALSE, confidence |-> 0, label |-> "unknown"]

\* What the model does with one image: whether the features can be extracted,
\* whether anything raises, the hard prediction and the probability of the
\* permit class (ten-thousandths; the code rounds the confidence to 4 places).
predict_permit_ml(model, x) ==
    IF model = NoModel THEN MLUnavailable
    ELSE IF x.raises THEN MLUnavailable
    ELSE IF ~x.features_ok THEN MLUnavailable
    ELSE LET confidence ==
                 IF model = ProbaModel
                 THEN (IF x.proba1 >= 10000 - x.proba1 THEN x.proba1 ELSE 10000 - x.proba1)
                 ELSE (IF x.prediction = 1 THEN 8500 ELSE 1500)
         IN  [available |-> TRUE,
              is_permit |-> (x.prediction = 1),
              confidence |-> TenK(confidence),
              label |-> IF x.prediction = 1 THEN "authentic" ELSE "non_permit"]

\* ------------------------------------------------------------ 3. QR scan
\* _preprocess_variants: the variants in the order they are yielded.  The
\* OpenCV variants exist only if cv2.imread decodes the file, the upscaled one
\* only if the image is less than 1000 pixels high.
PilVariants == <<"original", "grayscale", "high-contrast", "sharpened">>
\* variant of _preprocess_variants that upscales whatever the height
_preprocess_variants_AlwaysUpscaled(img) ==
    PilVariants \o
    (IF img.readable
     THEN <<"adaptive-threshold", "otsu", "inverted-otsu", "upscaled-otsu">>
          \o <<"laplacian-enhanced", "histogram-equalized", "morphology-closed", "clahe">>
     ELSE << >>)
_preprocess_variants(img) ==
    PilVariants \o
    (IF img.readable
     THEN <<"adaptive-threshold", "otsu", "inverted-otsu">>
          \o (IF img.h < 1000 THEN <<"upscaled-otsu">> ELSE << >>)
          \o <<"laplacian-enhanced", "histogram-equalized", "morphology-closed", "clahe">>
     ELSE << >>)

MSG_NO_PYZBAR == "pyzbar library not installed"
MSG_NO_QR == "No QR code detected. Please ensure the QR code is clearly visible."
OCR_FALLBACK == "ocr-fallback"

NoText == Null
\* variant of _extract_text_with_ocr that reports success on an empty text
_extract_text_with_ocr_EmptyAccepted(tesseract_available, img, o) ==
    IF ~tesseract_available THEN <<FALSE, NoText>>
    ELSE IF ~img.readable THEN <<FALSE, NoText>>
    ELSE IF o.raises THEN <<FALSE, NoText>>
    ELSE <<TRUE, o.text>>
\* _extract_text_with_ocr: (success, text).  o is what Tesseract does with the
\* image: raise, or return a text (NoText: nothing but whitespace).
_extract_text_with_ocr(tesseract_available, img, o) ==
    IF ~tesseract_available THEN <<FALSE, NoText>>
    ELSE IF ~img.readable THEN <<FALSE, NoText>>
    ELSE IF o.raises THEN <<FALSE, NoText>>
    ELSE IF o.text = NoText THEN <<FALSE, NoText>>
    ELSE <<TRUE, o.text>>

\* _decode_qr_from_array on one variant: q.hits are the variants in which
\* pyzbar finds a symbol with a non-empty payload, q.blank those in which it
\* finds symbols whose payload is empty.  The answer is the decoded objects:
\* none, only blank ones, or one with data.
_decode_qr_from_array(pyzbar_available, q, method) ==
    IF ~pyzbar_available THEN "none"
    ELSE IF method \in q.hits THEN "data"
    ELSE IF method \in q.blank THEN "blank"
    ELSE "none"

RECURSIVE FirstHit(_, _, _, _)
\* the loop of scan_qr_code over the variants, from position k
FirstHit(pyzbar_available, q, variants, k) ==
    IF k > Len(variants) THEN ""
    ELSE IF _decode_qr_from_array(pyzbar_available, q, variants[k]) = "data" THEN variants[k]
    ELSE FirstHit(pyzbar_available, q, variants, k + 1)

RECURSIVE TriedVariants(_, _, _, _)
\* the variants the loop of scan_qr_code takes from the generator, from position k
TriedVariants(pyzbar_available, q, variants, k) ==
    IF k > Len(variants) THEN << >>
    ELSE IF _decode_qr_from_array(pyzbar_available, q, variants[k]) = "data"
    THEN <<variants[k]>>
    ELSE <<variants[k]>> \o TriedVariants(pyzbar_available, q, variants, k + 1)

\* scan_qr_code: [raised, ok, data, error, method, used_ocr, tried].  q.pil_error: Pillow
\* cannot load the file (Image.open / np.array raise), which nothing in
\* scan_qr_code catches.
scan_qr_code(pyzbar_available, tesseract_available, img, q, o) ==
    LET none == [raised |-> FALSE, ok |-> FALSE, data |-> Null, error |-> "",
                 method |-> "", used_ocr |-> FALSE, tried |-> << >>]
    IN  IF ~pyzbar_available THEN [none EXCEPT !.error = MSG_NO_PYZBAR]
        ELSE IF q.pil_error THEN [none EXCEPT !.raised = TRUE]
        ELSE LET method == FirstHit(pyzbar_available, q, _preprocess_variants(img), 1)
                 ocr == _extract_text_with_ocr(tesseract_available, img, o)
                 blank == [none EXCEPT !.tried = TriedVariants(pyzbar_available, q,
                                                               _preprocess_variants(img), 1)]
             IN  IF method # ""
                 THEN [blank EXCEPT !.ok = TRUE, !.data = q.payload, !.method = method]
                 ELSE IF ocr[1]
                 THEN [blank EXCEPT !.ok = TRUE, !.data = ocr[2], !.method = OCR_FALLBACK,
                                    !.used_ocr = TRUE]
                 ELSE [blank EXCEPT !.error = MSG_NO_QR, !.used_ocr = TRUE]

\* ------------------------------------------------- 2c. texts and their fields
\* A text (a QR payload or what OCR reads) is a URL, or none, followed by
\* lines "<LABEL>: <value>".  Labels are the upper-cased line heads below;
\* values are names and never contain a label word or "NO".
NoUrl == [scheme |-> "", host |-> << >>, params |-> {}, path |-> FALSE]
Line(label, value) == [label |-> label, value |-> value]
NoFields ==
    [business_name |-> NoName, business_owner |-> NoName, validity_date |-> NoName,
     business_number |-> NoName, scope |-> NoName]

\* _parse_qr_text, one line: line.upper().startswith(<label>:)
ParseQrLine(fields, line) ==
    IF line.label = "BUSINESS NAME" THEN [fields EXCEPT !.business_name = line.value]
    ELSE IF line.label = "BUSINESS OWNER" THEN [fields EXCEPT !.business_owner = line.value]
    ELSE IF line.label = "VALIDITY DATE" THEN [fields EXCEPT !.validity_date = line.value]
    ELSE IF line.label \in {"BUSINESS NAME NO.", "BUSINESS NO."}
         THEN [fields EXCEPT !.business_number = line.value]
    ELSE IF line.label = "SCOPE" THEN [fields EXCEPT !.scope = line.value]
    ELSE fields

RECURSIVE ParseQrLines(_, _)
ParseQrLines(fields, lines) ==
    IF lines = << >> THEN fields
    ELSE ParseQrLines(ParseQrLine(fields, Head(lines)), Tail(lines))

_parse_qr_text(text) == ParseQrLines(NoFields, text.lines)

\* _extract_permit_text_details, one line: the label words are looked for
\* anywhere in the line and the value must be longer than a minimum.
ExtractPermitLine(fields, line) ==
    IF line.label \in {"BUSINESS NAME", "REGISTERED BUSINESS NAME"}
    THEN (IF Len(line.value) > 2 THEN [fields EXCEPT !.business_name = line.value] ELSE fields)
    ELSE IF line.label \in {"BUSINESS OWNER", "OWNER", "PROPRIETOR"}
    THEN (IF Len(line.value) > 2 THEN [fields EXCEPT !.business_owner = line.value] ELSE fields)
    ELSE IF line.label \in {"VALIDITY DATE", "VALID UNTIL", "EXPIRES"}
    THEN (IF Len(line.value) > 4 THEN [fields EXCEPT !.validity_date = line.value] ELSE fields)
    ELSE IF line.label \in {"BUSINESS NAME NO.", "BUSINESS NO.", "BUSINESS NUMBER"}
    THEN (IF Len(line.value) > 2 THEN [fields EXCEPT !.business_number = line.value] ELSE fields)
    ELSE IF line.label = "SCOPE"
    THEN (IF Len(line.value) > 2 THEN [fields EXCEPT !.scope = line.value] ELSE fields)
    ELSE fields

RECURSIVE ExtractPermitLines(_, _)
ExtractPermitLines(fields, lines) ==
    IF lines = << >> THEN fields
    ELSE ExtractPermitLines(ExtractPermitLine(fields, Head(lines)), Tail(lines))

_extract_permit_text_details(text) == ExtractPermitLines(NoFields, text.lines)

\* fuzz.token_set_ratio(a, b), 0..100: 100 on equal strings that hold a letter
\* or digit, otherwise what the library answers for the pair (r).
TokenSetRatio(a, b, r) ==
    IF a = b /\ (\E i \in 1..Len(a) : IsLowerAlnum(a[i])) THEN 100 ELSE r

NoComparison ==
    [business_name_match |-> FALSE, business_owner_match |-> FALSE,
     validity_date_match |-> FALSE, business_number_match |-> FALSE,
     scope_match |-> FALSE, mismatches |-> << >>, checked |-> 0, matches |-> 0,
     confidence |-> 0]

\* matches / checked as a confidence
MatchConfidence(matches, checked) ==
    IF checked > 0 THEN matches * (Scale \div checked) ELSE 0

\* _compare_fields_simple: substring match of the business names, equality of
\* the business numbers.
_compare_fields_simple(qr_fields, permit_fields) ==
    LET name_checked == qr_fields.business_name # NoName /\ permit_fields.business_name # NoName
        qr == Lower(qr_fields.business_name)
        permit == Lower(permit_fields.business_name)
        name_match == name_checked /\ (Contains(permit, qr) \/ Contains(qr, permit))
        num_checked == qr_fields.business_number # NoName /\ permit_fields.business_number # NoName
        num_match == num_checked /\ qr_fields.business_number = permit_fields.business_number
        checked == (IF name_checked THEN 1 ELSE 0) + (IF num_checked THEN 1 ELSE 0)
        matches == (IF name_match THEN 1 ELSE 0) + (IF num_match THEN 1 ELSE 0)
    IN  [NoComparison EXCEPT !.business_name_match = name_match,
                             !.business_number_match = num_match,
                             !.checked = checked, !.matches = matches,
                             !.confidence = MatchConfidence(matches, checked)]

\* _compare_permit_fields with threshold 0.70 (0.80 for the validity date);
\* ratios holds the library's token_set_ratio for each fuzzy field.
_compare_permit_fields(fuzzywuzzy_available, qr_fields, permit_fields, ratios) ==
    IF ~fuzzywuzzy_available THEN _compare_fields_simple(qr_fields, permit_fields)
    ELSE
    LET both(f) == qr_fields[f] # NoName /\ permit_fields[f] # NoName
        sim(f) == TokenSetRatio(Strip(Lower(qr_fields[f])), Strip(Lower(permit_fields[f])),
                                ratios[f])
        name_match == both("business_name") /\ sim("business_name") >= 70
        owner_match == both("business_owner") /\ sim("business_owner") >= 70
        num_match == both("business_number")
                     /\ Strip(qr_fields.business_number) = Strip(permit_fields.business_number)
        date_match == both("validity_date") /\ sim("validity_date") >= 80
        one(b) == IF b THEN 1 ELSE 0
        miss(f, ok, text) == IF both(f) /\ ~ok THEN <<text>> ELSE << >>
        checked == one(both("business_name")) + one(both("business_owner"))
                   + one(both("business_number")) + one(both("validity_date"))
        matches == one(name_match) + one(owner_match) + one(num_match) + one(date_match)
    IN  [NoComparison EXCEPT
            !.business_name_match = name_match,
            !.business_owner_match = owner_match,
            !.business_number_match = num_match,
            !.validity_date_match = date_match,
            !.mismatches = miss("business_name", name_match, "Business name mismatch")
                           \o miss("business_owner", owner_match, "Owner mismatch")
                           \o miss("business_number", num_match, "Business number mismatch")
                           \o miss("validity_date", date_match, "Validity date mismatch"),
            !.checked = checked, !.matches = matches,
            !.confidence = MatchConfidence(matches, checked)]

\* text_verification when OCR gave nothing (step 3b)
NoOcrComparison ==
    [confidence |-> 0,
     details |-> "Could not extract text from permit image for verification",
     mismatches |-> << >>]

\* ------------------------------------------------------ 3. DTI URL validation
\* A URL is its scheme, the labels of its network location, the names of its
\* query parameters and whether it has path segments.
DTI_DOMAINS ==
    { <<"bnrs", "dti", "gov", "ph">>, <<"www", "bnrs", "dti", "gov", "ph">>,
      <<"dti", "gov", "ph">>, <<"www", "dti", "gov", "ph">> }

\* the host parts of DTI_URL_PATTERNS; each is matched after http:// or https://
\* as a prefix of the text
DTI_URL_PATTERNS == DTI_DOMAINS

\* re.match on the host part: the pattern's labels, then anything
HostHasPrefix(host, pat) ==
    /\ Len(pat) <= Len(host)
    /\ SubSeq(host, 1, Len(pat)) = pat

is_dti_url(text) ==
    LET url == text.url
    IN  \/ url.scheme # "" /\ url.host \in DTI_DOMAINS
        \/ /\ url.scheme \in {"http", "https"}
           /\ \E pat \in DTI_URL_PATTERNS : HostHasPrefix(url.host, pat)

\* extract_business_info_from_url: the keys of the info it returns
extract_business_info_from_url(text) ==
    [url |-> text.url,
     keys |-> {"url"}
              \cup (IF "id" \in text.url.params THEN {"registration_id"} ELSE {})
              \cup (IF "bn" \in text.url.params THEN {"business_name"} ELSE {})
              \cup (IF "reg" \in text.url.params THEN {"registration_number"} ELSE {})
              \cup (IF text.url.path THEN {"path_segments"} ELSE {})]

\* ------------------------------------------------- 4. online DTI validation
\* A text is the sequence of its words; a marker term is a text too.
dti_markers ==
    << <<"department", "of", "trade", "and", "industry">>, <<"dti">>, <<"bnrs">>,
       <<"business", "name">>, <<"certificate">>, <<"registration">>, <<"registered">>,
       <<"business", "name", "registration">> >>

\* str.lower on the words the sample pages are written with
LowerWord(w) ==
    CASE w = "DTI" -> "dti"
      [] w = "BNRS" -> "bnrs"
      [] w = "Business" -> "business"
      [] w = "Name" -> "name"
      [] w = "Registration" -> "registration"
      [] w = "Registered" -> "registered"
      [] w = "Welcome" -> "welcome"
      [] OTHER -> w
page_lower(text) == [i \in 1..Len(text) |-> LowerWord(text[i])]

\* m in page_lower
OccursIn(term, text) ==
    \E i \in 0..(Len(text) - Len(term)) : \A j \in 1..Len(term) : text[i + j] = term[j]

\* variant of marker_hits that looks for the terms in the page as written
marker_hits_CaseSensitive(page) ==
    Cardinality({k \in 1..Len(dti_markers) : OccursIn(dti_markers[k], page)})
\* marker_hits = sum(1 for m in dti_markers if m in page_lower)
marker_hits(page) ==
    Cardinality({k \in 1..Len(dti_markers) : OccursIn(dti_markers[k], page_lower(page))})

\* variant of DtiStatusMessage that leaves the status code out
DtiStatusMessage_NoCode(status_code) ==
    "DTI website returned a bad status. The registration may have expired or the URL is invalid."
DtiStatusMessage(status_code) ==
    "DTI website returned status " \o ToString(status_code)
        \o ". The registration may have expired or the URL is invalid."
MSG_DTI_NO_MARKERS == "Page did not contain expected DTI registration markers."
MSG_DTI_CONFIRMED == "DTI registration confirmed via BNRS."
MSG_DTI_TIMEOUT == "DTI website timed out. Your application is saved for manual review."
MSG_DTI_CONNECTION == "Could not connect to DTI website. Try again later."
MSG_DTI_ERROR == "DTI validation error"

NoDetails ==
    [reachable |-> FALSE, dti_confirmed |-> FALSE, business_name |-> NoName,
     owner_name |-> NoName, registration_number |-> NoName, status |-> "",
     http_status |-> 0, message |-> ""]

\* What requests.get does: raise Timeout, raise ConnectionError, raise
\* something else before a response exists ("error"), or answer with a status
\* and a page; a page may still fail to decode ("text_error").  A page is the
\* words of its body and what the scraping patterns find in it.
validate_with_dti(resp) ==
    IF resp.outcome = "timeout" THEN <<FALSE, [NoDetails EXCEPT !.message = MSG_DTI_TIMEOUT]>>
    ELSE IF resp.outcome = "connection_error"
    THEN <<FALSE, [NoDetails EXCEPT !.message = MSG_DTI_CONNECTION]>>
    ELSE IF resp.outcome = "error" THEN <<FALSE, [NoDetails EXCEPT !.message = MSG_DTI_ERROR]>>
    ELSE LET d1 == [NoDetails EXCEPT !.http_status = resp.status, !.reachable = TRUE]
         IN  IF resp.status # 200
             THEN <<FALSE, [d1 EXCEPT !.message = DtiStatusMessage(resp.status)]>>
             ELSE IF resp.outcome = "text_error"
             THEN <<FALSE, [d1 EXCEPT !.message = MSG_DTI_ERROR]>>
             ELSE IF marker_hits(resp.page.body) >= 2
             THEN <<TRUE, [d1 EXCEPT !.dti_confirmed = TRUE,
                                     !.business_name = resp.page.business_name,
                                     !.owner_name = resp.page.owner_name,
                                     !.registration_number = resp.page.registration_number,
                                     !.status = resp.page.status,
                                     !.message = MSG_DTI_CONFIRMED]>>
             ELSE <<FALSE, [d1 EXCEPT !.message = MSG_DTI_NO_MARKERS]>>

\* ------------------------------------------------ 5. name cross-verification
\* thousandths
NAME_MATCH_THRESHOLD == 650

\* cross_check_names once the two similarities are known: which pairs were
\* compared (bn_checked, on_checked), their similarities, and whether the
\* applicant gave each name
CrossCheckResult(bn_checked, on_checked, bn_sim, on_sim, bn_given, on_given, thr) ==
    [business_name_match |-> IF bn_checked THEN Flag(FracGeq(bn_sim, thr)) ELSE NullFlag,
     owner_name_match |-> IF on_checked THEN Flag(FracGeq(on_sim, thr)) ELSE NullFlag,
     business_name_similarity |-> IF bn_checked THEN Round3(bn_sim) ELSE 0,
     owner_name_similarity |-> IF on_checked THEN Round3(on_sim) ELSE 0,
     checks_done |-> (IF bn_checked THEN 1 ELSE 0) + (IF on_checked THEN 1 ELSE 0),
     overall_match |->
         IF bn_checked /\ on_checked
         THEN Round3(<<FracAdd(bn_sim, on_sim)[1], FracAdd(bn_sim, on_sim)[2] * 2>>)
                  >= NAME_MATCH_THRESHOLD
         ELSE IF bn_checked THEN Round3(bn_sim) >= NAME_MATCH_THRESHOLD
         ELSE IF on_checked THEN Round3(on_sim) >= NAME_MATCH_THRESHOLD
         ELSE TRUE,
     score |->
         IF bn_checked /\ on_checked
         THEN Round3(<<FracAdd(bn_sim, on_sim)[1], FracAdd(bn_sim, on_sim)[2] * 2>>)
         ELSE IF bn_checked THEN Round3(bn_sim)
         ELSE IF on_checked THEN Round3(on_sim)
         ELSE 500,
     details |->
         (IF bn_checked
          THEN (IF FracGeq(bn_sim, thr) THEN <<"Business name matches">>
                ELSE <<"Business name MISMATCH">>)
          ELSE IF bn_given
               THEN <<"Could not extract business name from DTI for comparison">>
               ELSE << >>)
         \o (IF on_checked
             THEN (IF FracGeq(on_sim, thr) THEN <<"Owner name matches">>
                   ELSE <<"Owner name MISMATCH">>)
             ELSE IF on_given
                  THEN <<"Could not extract owner name from DTI for comparison">>
                  ELSE << >>)
         \o (IF bn_checked \/ on_checked THEN << >>
             ELSE <<"No DTI name data available for cross-check">>)]

cross_check_names(user_business_name, user_owner_name, dti_business_name, dti_owner_name) ==
    CrossCheckResult(user_business_name # NoName /\ dti_business_name # NoName,
                     user_owner_name # NoName /\ dti_owner_name # NoName,
                     _name_similarity(user_business_name, dti_business_name),
                     _name_similarity(user_owner_name, dti_owner_name),
                     user_business_name # NoName, user_owner_name # NoName,
                     <<NAME_MATCH_THRESHOLD, 1000>>)

\* ------------------------------------------------ 6. verification pipeline
MSG_NAME_MISMATCH == "DTI QR code is valid, but the names you provided do not match DTI records."
MSG_DTI_VERIFIED == "QR code verified against DTI BNRS."
MSG_UNREACHABLE_ML == "DTI server unreachable, but QR URL is valid and ML classifier confirms permit."
MSG_TEXT_VERIFIED_ML == "QR code verified. Business information matches permit."
MSG_TEXT_INSUFFICIENT == "QR code business information does not sufficiently match the permit."
MSG_TEXT_VERIFIED == "QR code verified. Business information matches permit (text only)."
MSG_TEXT_NO_MATCH == "QR code business information does not match the permit."
MSG_NO_OCR == "Cannot extract text from permit image for QR comparison."
MSG_ML_PENDING == "No QR code detected, but ML classifier identifies this as a business permit."
MSG_NOT_PERMIT == "No QR code detected and the image does not appear to be a business permit."

\* permit_validation; an absent flag is FALSE, an absent list is empty
Validation(passed, message) ==
    [passed |-> passed, message |-> message, name_mismatch |-> FALSE,
     pending_manual_review |-> FALSE, mismatches |-> << >>, name_check_details |-> << >>]

\* the results dict verify_permit_image starts from
NewResults ==
    [valid |-> FALSE, confidence |-> 0, quality_check |-> Null, ml_prediction |-> Null,
     qr_scan |-> Null, qr_data |-> Null, dti_url_valid |-> FALSE, dti_validation |-> Null,
     business_info |-> Null, name_verification |-> Null, text_verification |-> Null,
     extracted_text |-> Null, permit_validation |-> Validation(FALSE, "")]

\* Step 1, given what check_image_quality returned
QualityStep(r, q) ==
    [r EXCEPT !.quality_check = [passed |-> q[1], message |-> q[2]],
              !.permit_validation.message = IF q[1] THEN @ ELSE q[2]]

\* Step 3: what the scan leaves in the results
ScanStep(r, sc) ==
    [r EXCEPT !.qr_scan = [passed |-> sc.ok,
                           message |-> IF sc.ok THEN "QR decoded" ELSE sc.error,
                           method |-> sc.method],
              !.qr_data = IF sc.ok THEN sc.data ELSE @,
              !.extracted_text = IF sc.ok THEN sc.data ELSE @]

\* the comparison of the QR payload's fields with the OCR text's, when OCR
\* succeeded (ocr_res is what _extract_text_with_ocr returned)
CompareWithOcr(fuzzywuzzy_available, qr_data, ocr_res, ratios) ==
    _compare_permit_fields(fuzzywuzzy_available, _parse_qr_text(qr_data),
                           _extract_permit_text_details(ocr_res[2]), ratios)

\* Step 3b and step 4: the text comparison and the URL test
TextCompareStep(r, fuzzywuzzy_available, qr_data, ocr_res, ratios) ==
    [r EXCEPT !.text_verification =
                  IF ocr_res[1]
                  THEN CompareWithOcr(fuzzywuzzy_available, qr_data, ocr_res, ratios)
                  ELSE NoOcrComparison,
              !.dti_url_valid = is_dti_url(qr_data)]

\* variant of MlBoost with a 0.05 weight
MlBoost_FivePercent(base, ml) ==
    IF ml.available /\ ml.is_permit
    THEN Min(Pct(99), base + (ml.confidence * 5) \div 100)
    ELSE base
\* the boost of line 1025: min(0.99, base + 0.04 * ml confidence)
MlBoost(base, ml) ==
    IF ml.available /\ ml.is_permit
    THEN Min(Pct(99), base + (ml.confidence * 4) \div 100)
    ELSE base

\* the business_info of an accepted registry result
AcceptedInfo(info, dti_details) ==
    [info EXCEPT !.keys =
        @ \cup (IF dti_details.business_name # NoName THEN {"business_name"} ELSE {})
          \cup (IF dti_details.owner_name # NoName THEN {"owner_name"} ELSE {})
          \cup (IF dti_details.registration_number # NoName
                THEN {"registration_number"} ELSE {})]

\* variant of NameMismatch without the 0.4 bound
NameMismatch_Below650(name_check, dti_details) ==
    /\ ~name_check.overall_match
    /\ (dti_details.business_name # NoName \/ dti_details.owner_name # NoName)
\* variant of NameMismatch that penalises scores below 0.6
NameMismatch_Below600(name_check, dti_details) ==
    /\ ~name_check.overall_match
    /\ name_check.score < 600
    /\ (dti_details.business_name # NoName \/ dti_details.owner_name # NoName)
\* line 1008 after line 1006: the names clearly do not match
NameMismatch(name_check, dti_details) ==
    /\ ~name_check.overall_match
    /\ name_check.score < 400
    /\ (dti_details.business_name # NoName \/ dti_details.owner_name # NoName)

\* variant of MlTiebreak with a non-strict threshold
MlTiebreak_AtLeast70(ml) == ml.available /\ ml.is_permit /\ ml.confidence >= Pct(70)
\* line 1052: the classifier as tiebreaker when the registry is unreachable
MlTiebreak(ml) == ml.available /\ ml.is_permit /\ ml.confidence > Pct(70)

\* variant of RegistryDecision that rejects when the permit text could not be read
RegistryDecision_TextGated(r, ml, dti_valid, dti_details, name_check) ==
    IF r.text_verification = NoOcrComparison
    THEN [r EXCEPT !.confidence = Pct(40), !.permit_validation = Validation(FALSE, MSG_NO_OCR)]
    ELSE IF dti_valid
    THEN IF NameMismatch(name_check, dti_details)
         THEN [r EXCEPT !.permit_validation =
                            [Validation(FALSE, MSG_NAME_MISMATCH)
                                EXCEPT !.name_mismatch = TRUE],
                        !.confidence = Pct(90) - Pct(20)]
         ELSE [r EXCEPT
                  !.valid = TRUE,
                  !.confidence =
                      MlBoost(IF name_check.overall_match THEN Pct(90) + Pct(5)
                              ELSE Pct(90), ml),
                  !.permit_validation =
                      [Validation(TRUE, MSG_DTI_VERIFIED)
                          EXCEPT !.name_check_details = name_check.details],
                  !.business_info = AcceptedInfo(@, dti_details)]
    ELSE IF ~dti_details.reachable
    THEN IF MlTiebreak(ml)
         THEN [r EXCEPT !.valid = TRUE, !.confidence = Pct(75),
                        !.permit_validation = Validation(TRUE, MSG_UNREACHABLE_ML)]
         ELSE [r EXCEPT !.confidence = Pct(50),
                        !.permit_validation =
                            [Validation(FALSE, dti_details.message)
                                EXCEPT !.pending_manual_review = TRUE]]
    ELSE [r EXCEPT !.confidence = Pct(40),
                   !.permit_validation = Validation(FALSE, dti_details.message)]
\* The decision of the registry branch (lines 1001-1077) on the results r that
\* already hold business_info, dti_validation and name_verification
RegistryDecision(r, ml, dti_valid, dti_details, name_check) ==
    IF dti_valid
    THEN IF NameMismatch(name_check, dti_details)
         THEN [r EXCEPT !.permit_validation =
                            [Validation(FALSE, MSG_NAME_MISMATCH)
                                EXCEPT !.name_mismatch = TRUE],
                        !.confidence = Pct(90) - Pct(20)]
         ELSE [r EXCEPT
                  !.valid = TRUE,
                  !.confidence =
                      MlBoost(IF name_check.overall_match THEN Pct(90) + Pct(5)
                              ELSE Pct(90), ml),
                  !.permit_validation =
                      [Validation(TRUE, MSG_DTI_VERIFIED)
                          EXCEPT !.name_check_details = name_check.details],
                  !.business_info = AcceptedInfo(@, dti_details)]
    ELSE IF ~dti_details.reachable
    THEN IF MlTiebreak(ml)
         THEN [r EXCEPT !.valid = TRUE, !.confidence = Pct(75),
                        !.permit_validation = Validation(TRUE, MSG_UNREACHABLE_ML)]
         ELSE [r EXCEPT !.confidence = Pct(50),
                        !.permit_validation =
                            [Validation(FALSE, dti_details.message)
                                EXCEPT !.pending_manual_review = TRUE]]
    ELSE [r EXCEPT !.confidence = Pct(40),
                   !.permit_validation = Validation(FALSE, dti_details.message)]

\* Steps 6 and 7, given what validate_with_dti returned (v) and the name check
RegistryRecord(r, ml, info, v, name_check) ==
    RegistryDecision([r EXCEPT !.business_info = info, !.dti_validation = v[2],
                               !.name_verification = name_check],
                     ml, v[1], v[2], name_check)

RegistryChecked(r, ml, qr_data, v, user_business_name, user_owner_name) ==
    RegistryRecord(r, ml, extract_business_info_from_url(qr_data), v,
                   cross_check_names(user_business_name, user_owner_name,
                                     v[2].business_name, v[2].owner_name))

\* The registry branch (lines 986-1077); resp is what the registry answers
RegistryStep(r, ml, qr_data, resp, user_business_name, user_owner_name) ==
    RegistryChecked(r, ml, qr_data, validate_with_dti(resp),
                    user_business_name, user_owner_name)

\* variant of Composite with weights 0.3, 0.3, 0.4
Composite_OtherWeights(text_conf, name_conf, ml_conf) ==
    (text_conf * 3) \div 10 + (name_conf * 3) \div 10 + (ml_conf * 4) \div 10
\* line 1120: 40% text match, 40% name match, 20% ML confidence
Composite(text_conf, name_conf, ml_conf) ==
    (text_conf * 4) \div 10 + (name_conf * 4) \div 10 + (ml_conf * 2) \div 10

\* variant of TextQrDecision whose text-only acceptance sets the flag alone
TextQrDecision_FlagOnly(r, ml, text_comparison, name_check, base_confidence) ==
    IF ml.available /\ ml.is_permit
    THEN IF base_confidence > Pct(65)
         THEN [r EXCEPT !.valid = TRUE,
                        !.confidence = Min(Pct(95), base_confidence),
                        !.permit_validation =
                            [Validation(TRUE, MSG_TEXT_VERIFIED_ML)
                                EXCEPT !.name_check_details = name_check.details]]
         ELSE [r EXCEPT !.confidence = base_confidence,
                        !.permit_validation =
                            [Validation(FALSE, MSG_TEXT_INSUFFICIENT)
                                EXCEPT !.mismatches = text_comparison.mismatches]]
    ELSE IF text_comparison.confidence > Pct(70)
         THEN [r EXCEPT !.valid = TRUE,
                        !.confidence = Min(Pct(85), text_comparison.confidence)]
         ELSE [r EXCEPT !.confidence = text_comparison.confidence,
                        !.permit_validation =
                            [Validation(FALSE, MSG_TEXT_NO_MATCH)
                                EXCEPT !.mismatches = text_comparison.mismatches]]
\* The decision of the text-QR branch (lines 1113-1176)
TextQrDecision(r, ml, text_comparison, name_check, base_confidence) ==
    IF ml.available /\ ml.is_permit
    THEN IF base_confidence > Pct(65)
         THEN [r EXCEPT !.valid = TRUE,
                        !.confidence = Min(Pct(95), base_confidence),
                        !.permit_validation =
                            [Validation(TRUE, MSG_TEXT_VERIFIED_ML)
                                EXCEPT !.name_check_details = name_check.details]]
         ELSE [r EXCEPT !.confidence = base_confidence,
                        !.permit_validation =
                            [Validation(FALSE, MSG_TEXT_INSUFFICIENT)
                                EXCEPT !.mismatches = text_comparison.mismatches]]
    ELSE IF text_comparison.confidence > Pct(70)
         THEN [r EXCEPT !.valid = TRUE,
                        !.confidence = Min(Pct(85), text_comparison.confidence),
                        !.permit_validation = Validation(TRUE, MSG_TEXT_VERIFIED)]
         ELSE [r EXCEPT !.confidence = text_comparison.confidence,
                        !.permit_validation =
                            [Validation(FALSE, MSG_TEXT_NO_MATCH)
                                EXCEPT !.mismatches = text_comparison.mismatches]]

TextQrRecord(r, ml, text_comparison, name_check) ==
    TextQrDecision([r EXCEPT !.text_verification = text_comparison,
                             !.name_verification = name_check],
                   ml, text_comparison, name_check,
                   Composite(text_comparison.confidence, Milli(name_check.score),
                             IF ml.available THEN ml.confidence ELSE Pct(50)))

\* the name check of the text-QR branch: the applicant's names, or the QR's own
\* where the applicant gave none, against the QR's
TextQrNameCheck(qr_fields, user_business_name, user_owner_name) ==
    cross_check_names(
        IF user_business_name # NoName THEN user_business_name ELSE qr_fields.business_name,
        IF user_owner_name # NoName THEN user_owner_name ELSE qr_fields.business_owner,
        qr_fields.business_name, qr_fields.business_owner)

\* variant of TextQrStep that rejects at 0.5 without OCR text
TextQrStep_NoOcrHalf(r, ml, fuzzywuzzy_available, qr_data, ocr_res, ratios, user_business_name, user_owner_name) ==
    IF ~ocr_res[1]
    THEN [r EXCEPT !.confidence = Pct(50), !.permit_validation = Validation(FALSE, MSG_NO_OCR)]
    ELSE TextQrRecord(r, ml,
                      CompareWithOcr(fuzzywuzzy_available, qr_data, ocr_res, ratios),
                      TextQrNameCheck(_parse_qr_text(qr_data),
                                      user_business_name, user_owner_name))
\* The branch of a QR payload that is no DTI URL (lines 1078-1187)
TextQrStep(r, ml, fuzzywuzzy_available, qr_data, ocr_res, ratios, user_business_name, user_owner_name) ==
    IF ~ocr_res[1]
    THEN [r EXCEPT !.confidence = Pct(40), !.permit_validation = Validation(FALSE, MSG_NO_OCR)]
    ELSE TextQrRecord(r, ml,
                      CompareWithOcr(fuzzywuzzy_available, qr_data, ocr_res, ratios),
                      TextQrNameCheck(_parse_qr_text(qr_data),
                                      user_business_name, user_owner_name))

\* variant of MlOnlyStep with a non-strict threshold
MlOnlyStep_AtLeast80(r, ml, scan_error) ==
    IF ml.available /\ ml.is_permit /\ ml.confidence >= Pct(80)
    THEN [r EXCEPT !.confidence = (ml.confidence * 7) \div 10,
                   !.permit_validation =
                       [Validation(FALSE, MSG_ML_PENDING)
                           EXCEPT !.pending_manual_review = TRUE]]
    ELSE IF ml.available /\ ~ml.is_permit
    THEN [r EXCEPT !.confidence = Pct(10),
                   !.permit_validation = Validation(FALSE, MSG_NOT_PERMIT)]
    ELSE [r EXCEPT !.permit_validation.message = scan_error]
\* The fall-back when the QR scan failed (lines 1189-1216)
MlOnlyStep(r, ml, scan_error) ==
    IF ml.available /\ ml.is_permit /\ ml.confidence > Pct(80)
    THEN [r EXCEPT !.confidence = (ml.confidence * 7) \div 10,
                   !.permit_validation =
                       [Validation(FALSE, MSG_ML_PENDING)
                           EXCEPT !.pending_manual_review = TRUE]]
    ELSE IF ml.available /\ ~ml.is_permit
    THEN [r EXCEPT !.confidence = Pct(10),
                   !.permit_validation = Validation(FALSE, MSG_NOT_PERMIT)]
    ELSE [r EXCEPT !.permit_validation.message = scan_error]

\* ---------------------------------------------------------------- inputs
\* The installations explored: which optional libraries import and what
\* _load_ml_model leaves in self.ml_model.
Installations ==
    { [pyzbar |-> TRUE, tesseract |-> TRUE, fuzzywuzzy |-> TRUE, ml_model |-> m] :
        m \in {NoModel, ProbaModel, HardModel} }
    \cup { [pyzbar |-> FALSE, tesseract |-> TRUE, fuzzywuzzy |-> TRUE, ml_model |-> ProbaModel],
           [pyzbar |-> TRUE, tesseract |-> FALSE, fuzzywuzzy |-> TRUE, ml_model |-> ProbaModel],
           [pyzbar |-> TRUE, tesseract |-> TRUE, fuzzywuzzy |-> FALSE, ml_model |-> NoModel] }

\* The images explored: one that passes the gate, a tall one that passes, and
\* one for each way of failing it.
Images ==
    { GoodImage,
      [GoodImage EXCEPT !.h = 1000, !.brightness = 230],
      [GoodImage EXCEPT !.readable = FALSE],
      [GoodImage EXCEPT !.w = 199],
      [GoodImage EXCEPT !.lap_var = 29],
      [GoodImage EXCEPT !.brightness = 231],
      [GoodImage EXCEPT !.cv_error = TRUE],
      [GoodImage EXCEPT !.h = 199, !.lap_var = 29, !.brightness = 231],
      [GoodImage EXCEPT !.lap_var = 29, !.brightness = 29],
      [GoodImage EXCEPT !.readable = FALSE, !.w = 199, !.lap_var = 0] }

N_am == <<"a", "m">>
N_ar == <<"a", "r">>
N_fr == <<"f", "r">>
N_arm == <<"a", "r", "m">>
N_farm == <<"f", "a", "r", "m">>
N_mafra == <<"m", "a", "f", "r", "a">>

\* What the applicant typed: (business name, owner name)
Applicants ==
    { [business_name |-> b, owner_name |-> o] :
        b \in {NoName, N_am, N_arm}, o \in {NoName, N_ar} }

\* What the classifier does with the image
MlBehaviours ==
    { [features_ok |-> TRUE, raises |-> FALSE, prediction |-> 1, proba1 |-> q] :
        q \in {7000, 7500, 8000, 9000} }
    \cup { [features_ok |-> TRUE, raises |-> FALSE, prediction |-> 0, proba1 |-> 1000],
           [features_ok |-> FALSE, raises |-> FALSE, prediction |-> 0, proba1 |-> 0],
           [features_ok |-> TRUE, raises |-> TRUE, prediction |-> 0, proba1 |-> 0] }

DtiUrl == [scheme |-> "https", host |-> <<"bnrs", "dti", "gov", "ph">>,
           params |-> {"id"}, path |-> TRUE]
Text(url, lines) == [url |-> url, lines |-> lines]

\* QR payloads: a registry URL, and permit texts
PermitText ==
    Text(NoUrl, << Line("BUSINESS NAME", N_arm), Line("BUSINESS OWNER", N_mafra),
                   Line("VALIDITY DATE", N_mafra), Line("BUSINESS NAME NO.", N_arm),
                   Line("SCOPE", N_arm) >>)
ShortPermitText ==
    Text(NoUrl, << Line("BUSINESS NAME", N_farm), Line("BUSINESS NO.", N_arm) >>)
Payloads == { Text(DtiUrl, << >>), PermitText, ShortPermitText }

\* What Tesseract reads, and what token_set_ratio answers for the fields that
\* differ from the QR payload's
OcrBehaviours ==
    { [raises |-> FALSE, text |-> NoText, ratios |-> NoFields],
      [raises |-> TRUE, text |-> NoText, ratios |-> NoFields] }
    \cup { [raises |-> FALSE, text |-> t,
            ratios |-> [business_name |-> rb, business_owner |-> 70,
                        validity_date |-> 80, business_number |-> 0, scope |-> 0]] :
             t \in { PermitText,
                     Text(NoUrl, << Line("REGISTERED BUSINESS NAME", N_farm),
                                    Line("PROPRIETOR", N_mafra),
                                    Line("VALID UNTIL", N_mafra),
                                    Line("BUSINESS NUMBER", N_farm) >>) },
             rb \in {69, 70} }

\* What the image holds for the QR decoder: the variants in which a symbol is
\* found, its payload, and whether Pillow fails to load the file
QrContents ==
    { [hits |-> h, blank |-> {}, payload |-> p, pil_error |-> FALSE] :
        h \in { {"original"}, {"upscaled-otsu", "clahe"} }, p \in Payloads }
    \cup { [hits |-> {}, blank |-> {}, payload |-> Null, pil_error |-> FALSE],
           [hits |-> {}, blank |-> {}, payload |-> Null, pil_error |-> TRUE],
           [hits |-> {"otsu"}, blank |-> {"original"}, payload |-> PermitText,
            pil_error |-> FALSE],
           [hits |-> {}, blank |-> {"grayscale"}, payload |-> Null, pil_error |-> FALSE] }

Page(body, business_name, owner_name) ==
    [body |-> body, business_name |-> business_name, owner_name |-> owner_name,
     registration_number |-> N_arm, status |-> "Active"]
\* a page in which no scraping pattern finds anything
BarePage(body) ==
    [body |-> body, business_name |-> NoName, owner_name |-> NoName,
     registration_number |-> NoName, status |-> ""]
NoPage == Page(<<"Welcome">>, NoName, NoName)
Response(outcome, status, page) == [outcome |-> outcome, status |-> status, page |-> page]

\* What the registry answers
Responses ==
    { Response("timeout", 0, NoPage), Response("connection_error", 0, NoPage),
      Response("error", 0, NoPage), Response("text_error", 200, NoPage),
      Response("ok", 404, NoPage), Response("ok", 500, NoPage),
      Response("ok", 200, Page(<<"dti">>, N_am, N_ar)),
      Response("ok", 200, Page(<<"Registered", "Business", "Name">>, N_am, N_ar)),
      Response("ok", 200, BarePage(<<"Business", "Name", "Registration">>)) }
    \cup { Response("ok", 200, Page(<<"DTI", "BNRS">>, b, o)) :
             b \in {NoName, N_am, N_ar, N_fr, N_farm}, o \in {NoName, N_arm} }

\* ------------------------------------------------------------------ state
VARIABLES
    install,      \* the optional libraries and self.ml_model, fixed by __init__
    user,         \* the applicant's business and owner name (the call's arguments)
    image,        \* the uploaded image
    qr,           \* what the image holds for the QR decoder, once it has been scanned
    ocr,          \* what Tesseract does with this image, once it has been run
    pc,           \* where the verify_permit_image call is
    results,      \* the results dict of the call
    ml_result,    \* local ml_result
    scan,         \* what scan_qr_code returned
    visited,      \* the stages entered, in order
    calls,        \* how often the classifier, the QR scanner, OCR and the registry were invoked
    returned,     \* how many results the call has returned
    name_a,       \* the argument of the name functions
    name_b,       \* their second argument, where they take two
    name_out,     \* what the name functions answered
    ml_input,     \* what the classifier did with the image, once it has run
    response,     \* what requests.get did, once the registry was asked
    dti_valid,    \* the boolean validate_with_dti returned
    save,         \* what save_verification_record did
    features,     \* what the feature extractor did with an image
    threads,      \* the verify_permit_image calls running side by side
    disk          \* the clock and the files of the verification_records folder

vars == <<install, user, image, qr, ocr, pc, results, ml_result, scan, visited, calls,
          returned, name_a, name_b, name_out, ml_input, response, dti_valid, save,
          features, threads, disk>>
aux_vars == <<features, threads, disk>>
pipeline_vars == <<install, user, image, qr, ocr, pc, results, ml_result, scan, visited,
                   calls, returned, ml_input, response, dti_valid, save, aux_vars>>
name_vars == <<name_a, name_b, name_out>>

NoOcr == [drawn |-> FALSE, raises |-> FALSE, text |-> NoText, ratios |-> NoFields]
NoScan == [raised |-> FALSE, ok |-> FALSE, data |-> Null, error |-> "", method |-> "",
           used_ocr |-> FALSE, tried |-> << >>]
NoCalls == [classifier |-> 0, qr |-> 0, ocr |-> 0, fetch |-> 0]
\* the feature extractor has not run, no calls run side by side, nothing is
\* on the disk
NoFeatures == [op |-> "", failing |-> {}, dict |-> Null, vector |-> Null]
NoThreads == << >>
NoDisk == [clock |-> 0, files |-> {}, saves |-> << >>]
\* save_verification_record has not been called
NoSave ==
    [called |-> FALSE, raised |-> FALSE, file_written |-> FALSE, store_tried |-> FALSE,
     store_written |-> FALSE, fs_ok |-> TRUE, db |-> "none", user_email |-> FALSE,
     http |-> 0, result_before |-> Null]
NoNameOut ==
    [op |-> "", normalized |-> NoName, again |-> NoName, similarity |-> <<0, 1>>,
     reverse |-> <<0, 1>>, owner |-> NoName, dti_owner |-> NoName, check |-> Null]

\* The state when verify_permit_image is entered
Init ==
    /\ install \in Installations
    /\ user \in Applicants
    /\ image \in Images
    /\ qr = Null
    /\ ocr = NoOcr
    /\ pc = "quality"
    /\ results = NewResults
    /\ ml_result = MLUnavailable
    /\ scan = NoScan
    /\ visited = << >>
    /\ calls = NoCalls
    /\ returned = 0
    /\ name_a = NoName
    /\ name_b = NoName
    /\ name_out = NoNameOut
    /\ ml_input = Null
    /\ response = Null
    /\ dti_valid = FALSE
    /\ save = NoSave
    /\ features = NoFeatures
    /\ threads = NoThreads
    /\ disk = NoDisk

\* Tesseract is deterministic: its first run on the image fixes what it does
OcrDrawn(o) == [drawn |-> TRUE, raises |-> o.raises, text |-> o.text, ratios |-> o.ratios]
OcrChoices == IF ocr.drawn THEN {ocr} ELSE {OcrDrawn(o) : o \in OcrBehaviours}

\* variant of QualityChecked that goes on after a failed gate
QualityChecked_NoReturn(q) ==
    /\ results' = QualityStep(results, q)
    /\ pc' = "classify"
    /\ returned' = returned
\* Step 1 (lines 933-938), q being what check_image_quality returned
QualityChecked(q) ==
    /\ results' = QualityStep(results, q)
    /\ IF q[1]
       THEN pc' = "classify" /\ returned' = returned
       ELSE pc' = "done" /\ returned' = returned + 1

Quality ==
    /\ pc = "quality"
    /\ visited' = Append(visited, "quality")
    /\ QualityChecked(check_image_quality(image))
    /\ UNCHANGED <<install, user, image, qr, ocr, ml_result, scan, calls, name_vars, aux_vars,
                   ml_input, response, dti_valid, save>>

\* Step 2 (lines 940-942)
Classify ==
    /\ pc = "classify"
    /\ \E x \in MlBehaviours :
          /\ ml_result' = predict_permit_ml(install.ml_model, x)
          /\ ml_input' = IF install.ml_model = NoModel THEN Null ELSE x
    /\ results' = [results EXCEPT !.ml_prediction = ml_result']
    /\ visited' = Append(visited, "classify")
    /\ calls' = [calls EXCEPT !.classifier = @ + 1]
    /\ pc' = "qr_scan"
    /\ UNCHANGED <<install, user, image, qr, ocr, scan, returned, name_vars, aux_vars, response,
                   dti_valid, save>>

\* Step 3 (lines 944-950), sc being what scan_qr_code did and oo what Tesseract
\* does; an exception of the scan leaves the call
QrScanned(sc, oo) ==
    /\ scan' = sc
    /\ ocr' = IF sc.used_ocr THEN oo ELSE ocr
    /\ calls' = [calls EXCEPT !.qr = @ + 1, !.ocr = IF sc.used_ocr THEN @ + 1 ELSE @]
    /\ results' = IF sc.raised THEN results ELSE ScanStep(results, sc)
    /\ pc' = IF sc.raised THEN "raised" ELSE IF sc.ok THEN "text_compare" ELSE "ml_only"

QrScan ==
    /\ pc = "qr_scan"
    /\ \E q \in QrContents, oo \in OcrChoices :
          /\ qr' = q
          /\ QrScanned(scan_qr_code(install.pyzbar, install.tesseract, image, q, oo), oo)
    /\ visited' = Append(visited, "qr_scan")
    /\ UNCHANGED <<install, user, image, ml_result, returned, name_vars, aux_vars,
                   ml_input, response, dti_valid, save>>

\* Steps 3b and 4 (lines 952-985)
TextCompared(oo) ==
    /\ ocr' = oo
    /\ results' = TextCompareStep(results, install.fuzzywuzzy, scan.data,
                                  _extract_text_with_ocr(install.tesseract, image, oo),
                                  oo.ratios)

TextCompare ==
    /\ pc = "text_compare"
    /\ \E oo \in OcrChoices : TextCompared(oo)
    /\ calls' = [calls EXCEPT !.ocr = @ + 1]
    /\ pc' = IF is_dti_url(scan.data) THEN "registry" ELSE "text_qr"
    /\ UNCHANGED <<install, user, image, qr, ml_result, scan, visited, returned, name_vars, aux_vars,
                   ml_input, response, dti_valid, save>>

\* Steps 6 and 7 (lines 986-1077)
Registry ==
    /\ pc = "registry"
    /\ \E resp \in Responses :
          /\ results' = RegistryStep(results, ml_result, scan.data, resp,
                                     user.business_name, user.owner_name)
          /\ response' = resp
          /\ dti_valid' = validate_with_dti(resp)[1]
    /\ visited' = Append(visited, "registry")
    /\ calls' = [calls EXCEPT !.fetch = @ + 1]
    /\ pc' = "done"
    /\ returned' = returned + 1
    /\ UNCHANGED <<install, user, image, qr, ocr, ml_result, scan, name_vars, aux_vars, ml_input, save>>

\* The text-QR branch (lines 1078-1187)
TextQr ==
    /\ pc = "text_qr"
    /\ results' = TextQrStep(results, ml_result, install.fuzzywuzzy, scan.data,
                             _extract_text_with_ocr(install.tesseract, image, ocr),
                             ocr.ratios, user.business_name, user.owner_name)
    /\ visited' = Append(visited, "text_qr")
    /\ calls' = [calls EXCEPT !.ocr = @ + 1]
    /\ pc' = "done"
    /\ returned' = returned + 1
    /\ UNCHANGED <<install, user, image, qr, ocr, ml_result, scan, name_vars, aux_vars,
                   ml_input, response, dti_valid, save>>

\* The ML-only fall-back (lines 1189-1216)
MlOnly ==
    /\ pc = "ml_only"
    /\ results' = MlOnlyStep(results, ml_result, scan.error)
    /\ visited' = Append(visited, "ml_only")
    /\ pc' = "done"
    /\ returned' = returned + 1
    /\ UNCHANGED <<install, user, image, qr, ocr, ml_result, scan, calls, name_vars, aux_vars,
                   ml_input, response, dti_valid, save>>

Next == Quality \/ Classify \/ QrScan \/ TextCompare \/ Registry \/ TextQr \/ MlOnly

Spec == Init /\ [][Next]_vars

\* ------------------------------------------------- the name functions alone
\* The names explored: every string of at most MaxNameLen characters
NameInit ==
    /\ install = [pyzbar |-> TRUE, tesseract |-> TRUE, fuzzywuzzy |-> TRUE,
                  ml_model |-> NoModel]
    /\ user = [business_name |-> NoName, owner_name |-> NoName]
    /\ image = GoodImage
    /\ qr = Null
    /\ ocr = NoOcr
    /\ pc = "names"
    /\ results = NewResults
    /\ ml_result = MLUnavailable
    /\ scan = NoScan
    /\ visited = << >>
    /\ calls = NoCalls
    /\ returned = 0
    /\ name_a \in Names(MaxNameLen)
    /\ name_b = NoName
    /\ name_out = NoNameOut
    /\ ml_input = Null
    /\ response = Null
    /\ dti_valid = FALSE
    /\ save = NoSave
    /\ features = NoFeatures
    /\ threads = NoThreads
    /\ disk = NoDisk

\* _normalize_name(name_a)
Normalize ==
    /\ pc = "names"
    /\ name_out.op = ""
    /\ name_out' = [name_out EXCEPT !.op = "normalize",
                                    !.normalized = _normalize_name(name_a)]
    /\ UNCHANGED <<pipeline_vars, name_a, name_b>>

\* _normalize_name applied to what _normalize_name(name_a) returned
NormalizeAgain ==
    /\ pc = "names"
    /\ name_out.op = "normalize"
    /\ name_out' = [name_out EXCEPT !.op = "normalize_again",
                                    !.again = _normalize_name(name_out.normalized)]
    /\ UNCHANGED <<pipeline_vars, name_a, name_b>>

\* _name_similarity(name_a, name_a)
SelfSimilarity ==
    /\ pc = "names"
    /\ name_out.op = ""
    /\ name_out' = [name_out EXCEPT !.op = "similarity",
                                    !.similarity = _name_similarity(name_a, name_a)]
    /\ UNCHANGED <<pipeline_vars, name_a, name_b>>

NameNext == Normalize \/ NormalizeAgain \/ SelfSimilarity

NameSpec == NameInit /\ [][NameNext]_vars

\* ------------------------------------------------------- two names compared
N_fma == <<"f", "m", "a">>
\* the names on the registry's side
PartnerNames == {NoName, N_am, N_ar, N_fma, N_arm, N_farm}
\* the owner names on the applicant's and on the registry's side
OwnerNames == {NoName, N_ar}
PartnerOwnerNames == {NoName, N_ar, N_arm}

PairInit ==
    /\ install = [pyzbar |-> TRUE, tesseract |-> TRUE, fuzzywuzzy |-> TRUE,
                  ml_model |-> NoModel]
    /\ user = [business_name |-> NoName, owner_name |-> NoName]
    /\ image = GoodImage
    /\ qr = Null
    /\ ocr = NoOcr
    /\ pc = "pairs"
    /\ results = NewResults
    /\ ml_result = MLUnavailable
    /\ scan = NoScan
    /\ visited = << >>
    /\ calls = NoCalls
    /\ returned = 0
    /\ name_a \in Names(MaxPairLen)
    /\ name_b \in PartnerNames
    /\ name_out = NoNameOut
    /\ ml_input = Null
    /\ response = Null
    /\ dti_valid = FALSE
    /\ save = NoSave
    /\ features = NoFeatures
    /\ threads = NoThreads
    /\ disk = NoDisk

\* _name_similarity(name_a, name_b) and _name_similarity(name_b, name_a)
Similarity ==
    /\ pc = "pairs"
    /\ name_out.op = ""
    /\ name_out' = [name_out EXCEPT !.op = "similarity",
                                    !.similarity = _name_similarity(name_a, name_b),
                                    !.reverse = _name_similarity(name_b, name_a)]
    /\ UNCHANGED <<pipeline_vars, name_a, name_b>>

\* cross_check_names(name_a, owner, name_b, dti_owner)
CrossCheck ==
    /\ pc = "pairs"
    /\ name_out.op = ""
    /\ \E uo \in OwnerNames, do \in PartnerOwnerNames :
          name_out' = [name_out EXCEPT !.op = "cross_check",
                                       !.owner = uo,
                                       !.dti_owner = do,
                                       !.check = cross_check_names(name_a, uo, name_b, do)]
    /\ UNCHANGED <<pipeline_vars, name_a, name_b>>

PairNext == Similarity \/ CrossCheck

PairSpec == PairInit /\ [][PairNext]_vars

\* ------------------------------------------------------------ 7. audit trail
\* save_verification_record.  fs_ok: the folder can be made and the JSON file
\* written; db: "none" (db is None), "ok", or "fails" (models cannot be
\* imported, or record.save() raises); user_email: whether user_obj has one.
\* The file is written outside any try; the record-store part is inside one,
\* and building the record reads verification_result['qr_scan'].get, which
\* raises (and is caught) when the scan never ran.
save_verification_record(verification_result, fs_ok, db, user_email) ==
    LET entered == [called |-> TRUE, raised |-> FALSE, file_written |-> FALSE,
                    store_tried |-> FALSE, store_written |-> FALSE, fs_ok |-> fs_ok,
                    db |-> db, user_email |-> user_email, http |-> 0,
                    result_before |-> verification_result]
        filed == [entered EXCEPT !.file_written = TRUE]
    IN  IF ~fs_ok THEN [entered EXCEPT !.raised = TRUE]
        ELSE IF db = "none" THEN filed
        ELSE IF ~user_email THEN filed
        ELSE IF verification_result.qr_scan = Null THEN [filed EXCEPT !.store_tried = TRUE]
        ELSE IF db = "fails" THEN [filed EXCEPT !.store_tried = TRUE]
        ELSE [filed EXCEPT !.store_tried = TRUE, !.store_written = TRUE]

\* farmer_verify calls save_verification_record with the result of
\* verify_permit_image (routes/farmers.py lines 175-184)
SaveRecord ==
    /\ pc = "done"
    /\ \E fs_ok \in BOOLEAN, db \in {"none", "ok", "fails"}, user_email \in BOOLEAN :
          save' = save_verification_record(results, fs_ok, db, user_email)
    /\ pc' = IF save'.raised THEN "save_raised" ELSE "saved"
    /\ UNCHANGED <<install, user, image, qr, ocr, results, ml_result, scan, visited, calls,
                   returned, name_vars, aux_vars, ml_input, response, dti_valid>>

\* what farmer_verify answers (routes/farmers.py lines 199-256): 200 for a valid
\* result, 400 for an invalid one, 500 from its except clause
Respond ==
    /\ pc \in {"saved", "save_raised"}
    /\ save' = [save EXCEPT !.http = IF pc = "save_raised" THEN 500
                                     ELSE IF results.valid THEN 200 ELSE 400]
    /\ pc' = "responded"
    /\ UNCHANGED <<install, user, image, qr, ocr, results, ml_result, scan, visited, calls,
                   returned, name_vars, aux_vars, ml_input, response, dti_valid>>

\* one installation and one applicant uploading a good or a blurred image
SaveInit ==
    /\ Init
    /\ install = [pyzbar |-> TRUE, tesseract |-> TRUE, fuzzywuzzy |-> TRUE,
                  ml_model |-> ProbaModel]
    /\ user = [business_name |-> N_am, owner_name |-> NoName]
    /\ image \in {GoodImage, [GoodImage EXCEPT !.lap_var = 29]}

SaveNext == Next \/ SaveRecord \/ Respond

SaveSpec == SaveInit /\ [][SaveNext]_vars

\* ------------------------------------------------- permit_feature_extractor
FEATURE_NAMES ==
    <<"blur_score", "brightness", "contrast", "image_area", "width", "height", "aspect_ratio",
      "num_contours", "max_contour_area", "avg_contour_area", "edge_density",
      "text_pixel_ratio", "horizontal_line_ratio", "text_region_count",
      "color_variance", "hue_entropy", "saturation_entropy", "value_entropy",
      "edge_density_sobel", "corner_count", "edge_magnitude_mean",
      "has_qr_code", "qr_area_ratio",
      "lbp_mean", "lbp_std", "glcm_contrast", "glcm_homogeneity">>

\* the sub-extractors in the order extract_all_features calls them, and the
\* keys each of them returns
Extractors == <<"quality", "document", "text", "color", "edge", "qr", "texture">>
ExtractorNames == {Extractors[k] : k \in 1..Len(Extractors)}
ExtractedKeys(e) ==
    CASE e = "quality" -> {"blur_score", "brightness", "contrast", "image_area", "width",
                           "height", "aspect_ratio"}
      [] e = "document" -> {"num_contours", "max_contour_area", "avg_contour_area",
                            "edge_density"}
      [] e = "text" -> {"text_pixel_ratio", "horizontal_line_ratio", "text_region_count"}
      [] e = "color" -> {"color_variance", "hue_entropy", "saturation_entropy", "value_entropy"}
      [] e = "edge" -> {"edge_density_sobel", "corner_count", "edge_magnitude_mean"}
      [] e = "qr" -> {"has_qr_code", "qr_area_ratio"}
      [] e = "texture" -> {"lbp_mean", "lbp_std", "glcm_contrast", "glcm_homogeneity"}

\* what the sample image measures for a key: a different number for each
FeatureValue(key) == CHOOSE k \in 1..Len(FEATURE_NAMES) : FEATURE_NAMES[k] = key

\* _extract_qr_features catches its own exceptions and answers zeros
_extract_qr_features(failing) ==
    IF "qr" \in failing
    THEN [key \in ExtractedKeys("qr") |-> 0]
    ELSE [key \in ExtractedKeys("qr") |-> FeatureValue(key)]

\* extract_all_features: None when the image cannot be read or any
\* sub-extractor other than the QR one raises (failing: those that raise)
extract_all_features(img, failing) ==
    IF ~img.readable THEN Null
    ELSE IF failing \ {"qr"} # {} THEN Null
    ELSE [key \in UNION {ExtractedKeys(e) : e \in ExtractorNames} |->
              IF key \in ExtractedKeys("qr")
              THEN _extract_qr_features(failing)[key]
              ELSE FeatureValue(key)]

\* features_to_vector: float(feature_dict.get(k, 0)) for k in FEATURE_NAMES
features_to_vector(feature_dict) ==
    [i \in 1..Len(FEATURE_NAMES) |->
        IF FEATURE_NAMES[i] \in DOMAIN feature_dict THEN feature_dict[FEATURE_NAMES[i]] ELSE 0]

\* an image and the sub-extractors that raise on it
FeatureInit ==
    /\ install = [pyzbar |-> TRUE, tesseract |-> TRUE, fuzzywuzzy |-> TRUE,
                  ml_model |-> ProbaModel]
    /\ user = [business_name |-> NoName, owner_name |-> NoName]
    /\ image \in {GoodImage, [GoodImage EXCEPT !.readable = FALSE]}
    /\ qr = Null
    /\ ocr = NoOcr
    /\ pc = "features"
    /\ results = NewResults
    /\ ml_result = MLUnavailable
    /\ scan = NoScan
    /\ visited = << >>
    /\ calls = NoCalls
    /\ returned = 0
    /\ name_a = NoName
    /\ name_b = NoName
    /\ name_out = NoNameOut
    /\ ml_input = Null
    /\ response = Null
    /\ dti_valid = FALSE
    /\ save = NoSave
    /\ features = NoFeatures
    /\ threads = NoThreads
    /\ disk = NoDisk

\* predict_permit_ml lines 142-146: the features of the image, and their vector
\* unless there are none
ExtractVector ==
    /\ pc = "features"
    /\ features.op = ""
    /\ \E failing \in SUBSET ExtractorNames :
          LET dict == extract_all_features(image, failing)
          IN  features' = [op |-> "extract", failing |-> failing, dict |-> dict,
                           vector |-> IF dict = Null THEN Null ELSE features_to_vector(dict)]
    /\ UNCHANGED <<install, user, image, qr, ocr, pc, results, ml_result, scan, visited, calls,
                   returned, name_vars, ml_input, response, dti_valid, save, threads, disk>>

\* features_to_vector on a dict from which the keys of some sub-extractors and
\* one more key are missing
VectorizeDict ==
    /\ pc = "features"
    /\ features.op = ""
    /\ \E missing \in SUBSET ExtractorNames, k \in 1..Len(FEATURE_NAMES) :
          LET absent == UNION {ExtractedKeys(e) : e \in missing} \cup {FEATURE_NAMES[k]}
              dict == [key \in {FEATURE_NAMES[i] : i \in 1..Len(FEATURE_NAMES)} \ absent |->
                          FeatureValue(key)]
          IN  features' = [op |-> "vectorize", failing |-> {}, dict |-> dict,
                           vector |-> features_to_vector(dict)]
    /\ UNCHANGED <<install, user, image, qr, ocr, pc, results, ml_result, scan, visited, calls,
                   returned, name_vars, ml_input, response, dti_valid, save, threads, disk>>

FeatureNext == ExtractVector \/ VectorizeDict

FeatureSpec == FeatureInit /\ [][FeatureNext]_vars

\* ------------------------------------------------------- concurrent calls
\* app.py builds one ImageVerificationSystem and every request calls
\* verify_permit_image on it.  A call keeps results, ml_result and the scan in
\* locals; what the calls share is self.ml_model / self.ml_extractor and the
\* module's library flags (install), which verify_permit_image only reads.
\* A call's input is its arguments and what its image makes the classifier,
\* the QR decoder, Tesseract and the registry do.
CallInput(img, x, q, oo, resp) ==
    [user |-> [business_name |-> N_am, owner_name |-> NoName], image |-> img, x |-> x,
     q |-> q, oo |-> oo, resp |-> resp]
CallInputs ==
    LET permit == [features_ok |-> TRUE, raises |-> FALSE, prediction |-> 1, proba1 |-> 9000]
        other == [features_ok |-> TRUE, raises |-> FALSE, prediction |-> 0, proba1 |-> 1000]
        url == [hits |-> {"original"}, blank |-> {}, payload |-> Text(DtiUrl, << >>),
                pil_error |-> FALSE]
        text == [hits |-> {"upscaled-otsu", "clahe"}, blank |-> {}, payload |-> PermitText,
                 pil_error |-> FALSE]
        nothing == [hits |-> {}, blank |-> {}, payload |-> Null, pil_error |-> FALSE]
        read == [raises |-> FALSE, text |-> PermitText,
                 ratios |-> [business_name |-> 70, business_owner |-> 70,
                             validity_date |-> 80, business_number |-> 0, scope |-> 0]]
        unread == [raises |-> FALSE, text |-> NoText, ratios |-> NoFields]
        confirmed == Response("ok", 200, Page(<<"DTI", "BNRS">>, N_am, NoName))
        down == Response("timeout", 0, NoPage)
    IN  { CallInput(GoodImage, permit, url, read, confirmed),
          CallInput(GoodImage, other, url, read, down),
          CallInput(GoodImage, permit, text, read, down),
          CallInput(GoodImage, permit, nothing, unread, down),
          CallInput([GoodImage EXCEPT !.lap_var = 29], permit, url, read, confirmed) }

\* the locals of a call that has just been entered
NewCall(input) ==
    [pc |-> "quality", input |-> input, results |-> NewResults, ml_result |-> MLUnavailable,
     scan |-> NoScan]

\* the OCR result a call gets for its image
CallOcr(inst, c) == _extract_text_with_ocr(inst.tesseract, c.input.image, c.input.oo)

\* variant of CallMl in which the prediction is kept on the shared object, where
\* the first call's is found
CallMl_OnSharedObject(c) == threads[1].ml_result
\* the classifier result the later stages of a call use: its local ml_result
CallMl(c) == c.ml_result

\* the next stage of one call of verify_permit_image (lines 933-1216)
Stage(inst, c) ==
    CASE c.pc = "quality" ->
           LET q == check_image_quality(c.input.image)
           IN  [c EXCEPT !.results = QualityStep(c.results, q),
                         !.pc = IF q[1] THEN "classify" ELSE "done"]
      [] c.pc = "classify" ->
           LET ml == predict_permit_ml(inst.ml_model, c.input.x)
           IN  [c EXCEPT !.ml_result = ml, !.results.ml_prediction = ml, !.pc = "qr_scan"]
      [] c.pc = "qr_scan" ->
           LET sc == scan_qr_code(inst.pyzbar, inst.tesseract, c.input.image, c.input.q,
                                  c.input.oo)
           IN  [c EXCEPT !.scan = sc,
                         !.results = IF sc.raised THEN @ ELSE ScanStep(@, sc),
                         !.pc = IF sc.raised THEN "raised"
                                ELSE IF sc.ok THEN "text_compare" ELSE "ml_only"]
      [] c.pc = "text_compare" ->
           [c EXCEPT !.results = TextCompareStep(@, inst.fuzzywuzzy, c.scan.data,
                                                 CallOcr(inst, c), c.input.oo.ratios),
                     !.pc = IF is_dti_url(c.scan.data) THEN "registry" ELSE "text_qr"]
      [] c.pc = "registry" ->
           [c EXCEPT !.results = RegistryStep(@, CallMl(c), c.scan.data, c.input.resp,
                                              c.input.user.business_name,
                                              c.input.user.owner_name),
                     !.pc = "done"]
      [] c.pc = "text_qr" ->
           [c EXCEPT !.results = TextQrStep(@, CallMl(c), inst.fuzzywuzzy, c.scan.data,
                                            CallOcr(inst, c), c.input.oo.ratios,
                                            c.input.user.business_name,
                                            c.input.user.owner_name),
                     !.pc = "done"]
      [] c.pc = "ml_only" ->
           [c EXCEPT !.results = MlOnlyStep(@, CallMl(c), c.scan.error), !.pc = "done"]
      [] OTHER -> c

Running(c) == c.pc \notin {"done", "raised"}

RECURSIVE RunAlone(_, _)
\* a call that runs from where it is to its end with nothing in between
RunAlone(inst, c) == IF Running(c) THEN RunAlone(inst, Stage(inst, c)) ELSE c

\* two calls enter verify_permit_image on the one verifier
ConcInit ==
    /\ install \in {i \in Installations : i.pyzbar /\ i.tesseract /\ i.fuzzywuzzy}
    /\ user = [business_name |-> N_am, owner_name |-> NoName]
    /\ image = GoodImage
    /\ qr = Null
    /\ ocr = NoOcr
    /\ pc = "calls"
    /\ results = NewResults
    /\ ml_result = MLUnavailable
    /\ scan = NoScan
    /\ visited = << >>
    /\ calls = NoCalls
    /\ returned = 0
    /\ name_a = NoName
    /\ name_b = NoName
    /\ name_out = NoNameOut
    /\ ml_input = Null
    /\ response = Null
    /\ dti_valid = FALSE
    /\ save = NoSave
    /\ features = NoFeatures
    /\ threads \in {<<NewCall(a), NewCall(b)>> : a \in CallInputs, b \in CallInputs}
    /\ disk = NoDisk

\* the scheduler lets one of the calls run its next stage
RunStage ==
    /\ pc = "calls"
    /\ \E t \in 1..Len(threads) :
          /\ Running(threads[t])
          /\ threads' = [threads EXCEPT ![t] = Stage(install, threads[t])]
    /\ UNCHANGED <<install, user, image, qr, ocr, pc, results, ml_result, scan, visited, calls,
                   returned, name_vars, ml_input, response, dti_valid, save, features, disk>>

ConcNext == RunStage

ConcSpec == ConcInit /\ [][ConcNext]_vars

\* ------------------------------------------------------- decoded URLs
\* The URLs a QR code may hold: allow-listed hosts, hosts that only begin with
\* an allow-listed name, and unrelated ones, under several schemes
Hosts ==
    DTI_DOMAINS \cup
    { <<"bnrs", "dti", "gov", "ph", "evil", "com">>, <<"dti", "gov", "ph", "evil", "com">>,
      <<"www", "dti", "gov", "ph", "evil", "com">>, <<"evil", "com">>, <<"gov", "ph">>,
      <<"evil", "com", "dti", "gov", "ph">> }
Urls ==
    { [scheme |-> sch, host |-> h, params |-> ps, path |-> TRUE] :
        sch \in {"https", "http", "ftp"}, h \in Hosts, ps \in {{}, {"id"}} }

\* verify_permit_image after step 3 decoded a URL from the original image
UrlInit ==
    /\ install = [pyzbar |-> TRUE, tesseract |-> TRUE, fuzzywuzzy |-> TRUE,
                  ml_model |-> NoModel]
    /\ user = [business_name |-> N_am, owner_name |-> NoName]
    /\ image = GoodImage
    /\ \E u \in Urls :
          /\ qr = [hits |-> {"original"}, blank |-> {}, payload |-> Text(u, << >>),
                   pil_error |-> FALSE]
          /\ scan = scan_qr_code(TRUE, TRUE, GoodImage, qr, NoOcr)
    /\ ocr = NoOcr
    /\ pc = "text_compare"
    /\ ml_result = MLUnavailable
    /\ results = ScanStep([QualityStep(NewResults, check_image_quality(GoodImage))
                              EXCEPT !.ml_prediction = MLUnavailable], scan)
    /\ visited = <<"quality", "classify", "qr_scan">>
    /\ calls = [NoCalls EXCEPT !.classifier = 1, !.qr = 1]
    /\ returned = 0
    /\ name_a = NoName
    /\ name_b = NoName
    /\ name_out = NoNameOut
    /\ ml_input = Null
    /\ response = Null
    /\ dti_valid = FALSE
    /\ save = NoSave
    /\ features = NoFeatures
    /\ threads = NoThreads
    /\ disk = NoDisk

UrlNext == TextCompare \/ Registry \/ TextQr

UrlSpec == UrlInit /\ [][UrlNext]_vars

\* --------------------------------------------------- file audit records
\* seconds the wall clock may advance while the calls run
MaxClock == 2
\* the user ids of the calls
UserIds == {"u1", "u2"}

\* a call of save_verification_record that has not yet run its first line
NewSaveCall(user_id) == [user_id |-> user_id, pc |-> "called", record_path |-> << >>]

\* f"{user_id}_{ts}.json" with ts = strftime('%Y%m%d_%H%M%S'): the user id and
\* the time of day to the second
RecordPath(user_id, ts) == <<user_id, ts>>

\* what the file at a path holds: the calls whose dump went into it since it
\* was last truncated; NoFile if there is none
NoFile == [path |-> << >>, holds |-> << >>, present |-> FALSE]
FileAt(files, path) ==
    IF \E f \in files : f.path = path
    THEN CHOOSE f \in files : f.path = path
    ELSE NoFile
\* open(record_path, 'w'): creates the file or truncates the one there
OpenForWriting(files, path) ==
    { f \in files : f.path # path } \cup {[path |-> path, holds |-> << >>, present |-> TRUE]}
\* json.dump through the handle, and the close at the end of the with block
Dump(files, path, call) ==
    { f \in files : f.path # path }
        \cup {[path |-> path, holds |-> Append(FileAt(files, path).holds, call),
               present |-> TRUE]}

\* two requests have reached their save_verification_record call
AuditInit ==
    /\ install = [pyzbar |-> TRUE, tesseract |-> TRUE, fuzzywuzzy |-> TRUE,
                  ml_model |-> ProbaModel]
    /\ user = [business_name |-> NoName, owner_name |-> NoName]
    /\ image = GoodImage
    /\ qr = Null
    /\ ocr = NoOcr
    /\ pc = "audit"
    /\ results = NewResults
    /\ ml_result = MLUnavailable
    /\ scan = NoScan
    /\ visited = << >>
    /\ calls = NoCalls
    /\ returned = 0
    /\ name_a = NoName
    /\ name_b = NoName
    /\ name_out = NoNameOut
    /\ ml_input = Null
    /\ response = Null
    /\ dti_valid = FALSE
    /\ save = NoSave
    /\ features = NoFeatures
    /\ threads = NoThreads
    /\ \E u \in UserIds, v \in UserIds :
          disk = [clock |-> 0, files |-> {}, saves |-> <<NewSaveCall(u), NewSaveCall(v)>>]

audit_unchanged == <<install, user, image, qr, ocr, pc, results, ml_result, scan, visited, calls, returned, name_vars, ml_input, response, dti_valid, save, features, threads>>

\* a second passes
Tick ==
    /\ pc = "audit"
    /\ disk.clock < MaxClock
    /\ disk' = [disk EXCEPT !.clock = @ + 1]
    /\ UNCHANGED audit_unchanged

\* lines 1233-1234: the time is read and the path composed
NameRecord ==
    /\ pc = "audit"
    /\ \E i \in DOMAIN disk.saves :
          /\ disk.saves[i].pc = "called"
          /\ disk' = [disk EXCEPT !.saves[i].pc = "named",
                                  !.saves[i].record_path =
                                      RecordPath(disk.saves[i].user_id, disk.clock)]
    /\ UNCHANGED audit_unchanged

\* line 1236: the file is opened in mode 'w'
OpenRecord ==
    /\ pc = "audit"
    /\ \E i \in DOMAIN disk.saves :
          /\ disk.saves[i].pc = "named"
          /\ disk' = [disk EXCEPT !.saves[i].pc = "opened",
                                  !.files = OpenForWriting(@, disk.saves[i].record_path)]
    /\ UNCHANGED audit_unchanged

\* line 1237: the result is dumped and the file closed
DumpRecord ==
    /\ pc = "audit"
    /\ \E i \in DOMAIN disk.saves :
          /\ disk.saves[i].pc = "opened"
          /\ disk' = [disk EXCEPT !.saves[i].pc = "saved",
                                  !.files = Dump(@, disk.saves[i].record_path, i)]
    /\ UNCHANGED audit_unchanged

AuditNext == Tick \/ NameRecord \/ OpenRecord \/ DumpRecord

AuditSpec == AuditInit /\ [][AuditNext]_vars

\* -------------------------------------------------------------- properties
QualityPassed == results.quality_check # Null /\ results.quality_check.passed
Confirmed == results.dti_validation # Null /\ results.dti_validation.dti_confirmed
LastStage == IF visited = << >> THEN "" ELSE visited[Len(visited)]
Pending == results.permit_validation.pending_manual_review
OcrTextRead == _extract_text_with_ocr(install.tesseract, image, ocr)[1]
ScanFailureTexts == {MSG_NO_QR, MSG_NO_PYZBAR}
MlAgrees == ml_result.available /\ ml_result.is_permit

\* C1: an image that fails check_image_quality ends the call at once: the
\* result is invalid with confidence 0 and the quality message, and the
\* classifier, the QR scanner, OCR and the registry were never invoked
\* (ml_prediction, qr_scan, dti_validation and name_verification stay null).
C1_QualityFailureIsTerminal ==
    (pc # "quality" /\ pc # "names" /\ ~check_image_quality(image)[1]) =>
        /\ pc = "done"
        /\ returned = 1
        /\ visited = <<"quality">>
        /\ results.valid = FALSE
        /\ results.confidence = 0
        /\ results.quality_check = [passed |-> FALSE,
                                    message |-> check_image_quality(image)[2]]
        /\ results.permit_validation.message = check_image_quality(image)[2]
        /\ results.permit_validation.message # MSG_QUALITY_OK
        /\ calls = NoCalls
        /\ results.ml_prediction = Null
        /\ results.qr_scan = Null
        /\ results.dti_validation = Null
        /\ results.name_verification = Null

C1_BlurryImageRejected ==
    /\ pc = "done"
    /\ ~check_image_quality(image)[1]
    /\ results.permit_validation.message = MSG_BLURRY
    /\ calls = NoCalls

\* the orders in which one call may visit the stages
StagePaths ==
    { << >>, <<"quality">>, <<"quality", "classify">>,
      <<"quality", "classify", "qr_scan">> }
    \cup { <<"quality", "classify", "qr_scan", b>> : b \in {"registry", "text_qr", "ml_only"} }

\* C2: whatever the stages do, one call visits Quality, Classify, QR Scan and
\* one payload branch at most once each in that order, fetches from the
\* registry at most once, returns exactly one result, and no stage failure
\* leaves the call as an exception.
C2_OneResultNoException ==
    /\ pc # "raised"
    /\ visited \in StagePaths
    /\ calls.fetch <= 1
    /\ returned = IF pc = "done" THEN 1 ELSE 0

\* C3: registry URL confirmed and the names match: the result is valid, with
\* confidence 0.95 without classifier agreement and min(0.99, 0.95 + 0.04 *
\* ml confidence) with it, always within [0.90, 0.99].
C3_ConfirmedAndNamesMatch ==
    (pc = "done" /\ QualityPassed /\ Confirmed /\ results.name_verification.overall_match) =>
        /\ results.dti_url_valid
        /\ results.valid
        /\ results.permit_validation.passed
        /\ results.confidence =
               IF MlAgrees
               THEN Min(Pct(99), Pct(95) + (4 * ml_result.confidence) \div 100)
               ELSE Pct(95)
        /\ results.confidence >= Pct(90)
        /\ results.confidence <= Pct(99)

C3_BothNamesMatchWithClassifier ==
    /\ pc = "done"
    /\ Confirmed
    /\ results.name_verification.overall_match
    /\ results.name_verification.checks_done = 2
    /\ MlAgrees
    /\ ml_result.confidence = Pct(90)
    /\ results.valid
    /\ results.confidence = Pct(95) + Milli(36)

\* what line 1008 asks of the name check once the registry has confirmed
ClearMismatch ==
    /\ Confirmed
    /\ results.name_verification.score < 400
    /\ \/ results.dti_validation.business_name # NoName
       \/ results.dti_validation.owner_name # NoName

\* C4: registry confirmed, name score below 0.4 and a registry name scraped:
\* the result is invalid with name_mismatch set and confidence 0.70 whatever
\* the classifier said; and name_mismatch is set on no other path.
C4_NameMismatchRejects ==
    /\ (pc = "done" /\ ClearMismatch) =>
           /\ ~results.valid
           /\ ~results.permit_validation.passed
           /\ results.permit_validation.name_mismatch
           /\ results.confidence = Pct(70)
    /\ results.permit_validation.name_mismatch =>
           (pc = "done" /\ LastStage = "registry" /\ ClearMismatch)

C4_MismatchDespiteClassifier ==
    /\ pc = "done"
    /\ ClearMismatch
    /\ results.name_verification.business_name_match = Flag(FALSE)
    /\ MlAgrees
    /\ ml_result.confidence = Pct(90)
    /\ results.permit_validation.name_mismatch
    /\ results.confidence = Pct(70)

\* C5: an image that passes the quality gate and holds no QR code in any
\* variant, with the classifier unavailable, is rejected with the QR-scan
\* failure text as message and confidence 0.
C5_NoQrNoClassifierRejected ==
    (pc = "done" /\ QualityPassed /\ qr # Null /\ qr.hits = {} /\ ~ml_result.available) =>
        /\ ~results.valid
        /\ results.confidence = 0
        /\ results.permit_validation.message \in ScanFailureTexts

\* C6: when scan_qr_code fails the result is never valid: pending manual
\* review at 0.7 * classifier confidence (0.63 for 0.9, never above 0.7) if
\* the classifier is available, says permit and is more than 0.8 confident;
\* rejected at 0.1 if it is available and says not a permit; otherwise
\* rejected with the scan's failure message and confidence 0.
C6_ScanFailureNeverValid ==
    (pc = "done" /\ QualityPassed /\ ~scan.ok) =>
        /\ LastStage = "ml_only"
        /\ ~results.valid
        /\ ~results.permit_validation.passed
        /\ IF MlAgrees /\ ml_result.confidence > Pct(80)
           THEN /\ Pending
                /\ 10 * results.confidence = 7 * ml_result.confidence
                /\ results.confidence <= Pct(70)
                /\ ml_result.confidence = Pct(90) => results.confidence = Pct(63)
           ELSE IF ml_result.available /\ ~ml_result.is_permit
           THEN /\ ~Pending
                /\ results.confidence = Pct(10)
           ELSE /\ ~Pending
                /\ results.confidence = 0
                /\ results.permit_validation.message = scan.error
                /\ scan.error \in ScanFailureTexts

C6_PendingAtSixtyThree ==
    /\ pc = "done"
    /\ QualityPassed
    /\ ~scan.ok
    /\ ml_result.confidence = Pct(90)
    /\ Pending
    /\ results.confidence = Pct(63)

\* ten times the composite of line 1120, from the parts the result reports
TenComposite ==
    4 * results.text_verification.confidence + 4 * Milli(results.name_verification.score)
    + 2 * ml_result.confidence

\* C7: text-QR branch with OCR text and a classifier that says permit:
\* composite = 0.4 text + 0.4 name + 0.2 classifier; valid with confidence
\* min(0.95, composite) exactly when composite > 0.65, otherwise invalid
\* with confidence = composite and the text comparison's mismatches.
C7_CompositeDecides ==
    (pc = "done" /\ LastStage = "text_qr" /\ OcrTextRead /\ MlAgrees) =>
        /\ results.valid <=> TenComposite > 10 * Pct(65)
        /\ results.valid = results.permit_validation.passed
        /\ results.valid =>
               IF TenComposite > 10 * Pct(95)
               THEN results.confidence = Pct(95)
               ELSE 10 * results.confidence = TenComposite
        /\ ~results.valid =>
               /\ 10 * results.confidence = TenComposite
               /\ results.permit_validation.mismatches = results.text_verification.mismatches

C7_FullMatchCappedAt95 ==
    /\ pc = "done"
    /\ LastStage = "text_qr"
    /\ OcrTextRead
    /\ results.text_verification.confidence = Scale
    /\ results.name_verification.score = 1000
    /\ MlAgrees
    /\ ml_result.confidence = Pct(90)
    /\ TenComposite = 10 * Pct(98)
    /\ results.valid
    /\ results.confidence = Pct(95)

\* C8: text-QR branch with OCR text and no classifier: accepted exactly when
\* the text-match confidence exceeds 0.7, at min(0.85, text confidence), and
\* otherwise rejected at the text confidence; with no OCR text the result is
\* rejected at 0.4 whatever the classifier says.
C8_TextOnlyDecides ==
    /\ (pc = "done" /\ LastStage = "text_qr" /\ OcrTextRead /\ ~ml_result.available) =>
           /\ results.valid <=> results.text_verification.confidence > Pct(70)
           /\ results.valid = results.permit_validation.passed
           /\ results.confidence =
                  IF results.valid
                  THEN Min(Pct(85), results.text_verification.confidence)
                  ELSE results.text_verification.confidence
    /\ (pc = "done" /\ LastStage = "text_qr" /\ ~OcrTextRead) =>
           /\ ~results.valid
           /\ ~results.permit_validation.passed
           /\ results.confidence = Pct(40)
           /\ results.permit_validation.message = MSG_NO_OCR

C8_NoOcrRejectedDespiteClassifier ==
    /\ pc = "done"
    /\ LastStage = "text_qr"
    /\ ~OcrTextRead
    /\ MlAgrees
    /\ ml_result.confidence = Pct(90)
    /\ results.confidence = Pct(40)

\* C9: registry URL not confirmed.  Unreachable: accepted at 0.75 exactly
\* when the classifier is available, says permit and is more than 0.7
\* confident, otherwise pending manual review at 0.5.  Reachable: rejected at
\* 0.4 with the registry's message, never accepted and never pending.
C9_UnconfirmedRegistry ==
    (pc = "done" /\ LastStage = "registry" /\ ~Confirmed) =>
        /\ results.valid = results.permit_validation.passed
        /\ IF ~results.dti_validation.reachable
           THEN IF MlAgrees /\ ml_result.confidence > Pct(70)
                THEN results.valid /\ results.confidence = Pct(75) /\ ~Pending
                ELSE ~results.valid /\ results.confidence = Pct(50) /\ Pending
           ELSE /\ ~results.valid
                /\ ~Pending
                /\ results.confidence = Pct(40)
                /\ results.permit_validation.message = results.dti_validation.message
                /\ results.dti_validation.message
                       \in {DtiStatusMessage(404), DtiStatusMessage(500), MSG_DTI_NO_MARKERS,
                           MSG_DTI_ERROR}

C9_UnreachableAtThreshold ==
    /\ pc = "done"
    /\ LastStage = "registry"
    /\ ~results.dti_validation.reachable
    /\ MlAgrees
    /\ ml_result.confidence = Pct(70)
    /\ Pending
    /\ results.confidence = Pct(50)

\* C10: the similarity of a non-empty name with itself is 1.0
C10_SelfSimilarityIsOne ==
    (name_out.op = "similarity" /\ name_a # NoName) =>
        FracEq(name_out.similarity, <<1, 1>>)

\* C11: the similarity of two names does not depend on their order
C11_SimilaritySymmetric ==
    name_out.op = "similarity" => FracEq(name_out.similarity, name_out.reverse)

\* C12: normalizing a normalized name changes nothing
C12_NormalizeIdempotent ==
    name_out.op = "normalize_again" => name_out.again = name_out.normalized

\* the pairs cross_check_names can compare, their similarities and their mean
BusinessCompared == name_a # NoName /\ name_b # NoName
OwnerCompared == name_out.owner # NoName /\ name_out.dti_owner # NoName
BusinessSim == _name_similarity(name_a, name_b)
OwnerSim == _name_similarity(name_out.owner, name_out.dti_owner)
HalfSum(x) == <<x[1], 2 * x[2]>>
MeanSim ==
    IF BusinessCompared /\ OwnerCompared THEN HalfSum(FracAdd(BusinessSim, OwnerSim))
    ELSE IF BusinessCompared THEN BusinessSim
    ELSE OwnerSim
\* s thousandths is x to the nearest thousandth
NearestThousandth(s, x) ==
    /\ 2 * (1000 * x[1] - s * x[2]) <= x[2]
    /\ 2 * (s * x[2] - 1000 * x[1]) <= x[2]
FlagsAsCompared ==
    /\ name_out.check.business_name_match =
           IF BusinessCompared THEN Flag(FracGeq(BusinessSim, <<65, 100>>)) ELSE NullFlag
    /\ name_out.check.owner_name_match =
           IF OwnerCompared THEN Flag(FracGeq(OwnerSim, <<65, 100>>)) ELSE NullFlag

\* C13 as stated: with no comparable pair score = 0.5 and overall_match holds;
\* otherwise score is the mean of the compared similarities, overall_match
\* holds iff score >= 0.65, a compared field's flag is set iff its similarity
\* is >= 0.65 and the flag of a field not compared stays null.
C13_ScoreIsMean ==
    name_out.op = "cross_check" =>
        /\ IF ~BusinessCompared /\ ~OwnerCompared
           THEN name_out.check.score = 500 /\ name_out.check.overall_match = TRUE
           ELSE /\ name_out.check.score * MeanSim[2] = 1000 * MeanSim[1]
                /\ name_out.check.overall_match <=> name_out.check.score >= 650
        /\ FlagsAsCompared

\* C13, amended: as stated, except that score is the mean rounded to three
\* decimals (and overall_match is decided on the rounded score).
C13_ScoreIsRoundedMean ==
    name_out.op = "cross_check" =>
        /\ IF ~BusinessCompared /\ ~OwnerCompared
           THEN name_out.check.score = 500 /\ name_out.check.overall_match = TRUE
           ELSE /\ NearestThousandth(name_out.check.score, MeanSim)
                /\ name_out.check.overall_match <=> name_out.check.score >= 650
        /\ FlagsAsCompared

C13_MeanRoundedUp ==
    /\ name_out.op = "cross_check"
    /\ BusinessCompared
    /\ OwnerCompared
    /\ FracEq(BusinessSim, <<1, 3>>)
    /\ FracEq(OwnerSim, <<9, 10>>)
    /\ name_out.check.score = 617
    /\ ~name_out.check.overall_match
    /\ name_out.check.business_name_match = Flag(FALSE)
    /\ name_out.check.owner_name_match = Flag(TRUE)

\* the fields of the decoded payload and of the OCR text, and those present
\* on both sides
FieldNames == {"business_name", "business_owner", "validity_date", "business_number", "scope"}
QrFields == _parse_qr_text(scan.data)
PermitFields == _extract_permit_text_details(ocr.text)
OnBothSides == {f \in FieldNames : QrFields[f] # NoName /\ PermitFields[f] # NoName}
Compared == results.text_verification # Null /\ OcrTextRead

\* C14: the comparison checks every field present on both sides, its
\* confidence is matches/checked (0 when nothing was comparable), and it
\* records one mismatch for every checked field that failed.
C14_EveryCommonFieldChecked ==
    Compared =>
        /\ results.text_verification.checked = Cardinality(OnBothSides)
        /\ results.text_verification.confidence =
               MatchConfidence(results.text_verification.matches,
                               results.text_verification.checked)
        /\ Len(results.text_verification.mismatches) =
               results.text_verification.checked - results.text_verification.matches

\* the scan has run on an image that PIL could open
Scanned == calls.qr > 0 /\ ~scan.raised
\* the order of the variants: the upscaled one exists only under 1000 rows
VariantOrder ==
    <<"original", "grayscale", "high-contrast", "sharpened", "adaptive-threshold", "otsu",
      "inverted-otsu">>
    \o (IF image.h < 1000 THEN <<"upscaled-otsu">> ELSE << >>)
    \o <<"laplacian-enhanced", "histogram-equalized", "morphology-closed", "clahe">>
VariantNames == {VariantOrder[k] : k \in 1..Len(VariantOrder)}
SomeVariantDecodes == \E k \in 1..Len(VariantOrder) : VariantOrder[k] \in qr.hits
EarliestDecoding ==
    CHOOSE k \in 1..Len(VariantOrder) :
        /\ VariantOrder[k] \in qr.hits
        /\ \A j \in 1..(k - 1) : VariantOrder[j] \notin qr.hits

FallbackTextRead ==
    install.tesseract /\ image.readable /\ ~ocr.raises /\ ocr.text # NoText
FallbackOutcome ==
    /\ scan.used_ocr
    /\ calls.ocr > 0
    /\ IF FallbackTextRead
       THEN scan.ok /\ scan.method = OCR_FALLBACK /\ scan.data = ocr.text
       ELSE ~scan.ok /\ scan.error = MSG_NO_QR /\ scan.data = Null

Fetched == response # Null
NothingScraped ==
    /\ results.dti_validation.business_name = NoName
    /\ results.dti_validation.owner_name = NoName
    /\ results.dti_validation.registration_number = NoName
    /\ results.dti_validation.status = ""
NotConfirmed == ~dti_valid /\ ~results.dti_validation.dti_confirmed

\* C17: validate_with_dti always returns: after a timeout or a connection
\* error the record is not confirmed, not reachable, holds no scraped field
\* and carries the fixed message; after any other exception it is not
\* confirmed and carries a message; after a status other than 200 it is
\* reachable, not confirmed, and its message names the status code.
C17_FetchFailuresAreRecords ==
    Fetched =>
        /\ pc = "done"
        /\ response.outcome = "timeout" =>
              /\ NotConfirmed /\ ~results.dti_validation.reachable /\ NothingScraped
              /\ results.dti_validation.message = MSG_DTI_TIMEOUT
        /\ response.outcome = "connection_error" =>
              /\ NotConfirmed /\ ~results.dti_validation.reachable /\ NothingScraped
              /\ results.dti_validation.message = MSG_DTI_CONNECTION
        /\ response.outcome \in {"error", "text_error"} =>
              /\ NotConfirmed
              /\ results.dti_validation.message = MSG_DTI_ERROR
        /\ (response.outcome = "ok" /\ response.status # 200) =>
              /\ NotConfirmed /\ results.dti_validation.reachable
              /\ results.dti_validation.http_status = response.status
              /\ results.dti_validation.message =
                     "DTI website returned status " \o ToString(response.status)
                         \o ". The registration may have expired or the URL is invalid."

\* C17 witness: the registry answered 500
C17_Status500Reported ==
    /\ Fetched
    /\ response.status = 500
    /\ results.dti_validation.reachable
    /\ ~dti_valid
    /\ results.dti_validation.message =
           "DTI website returned status 500. The registration may have expired or the URL is invalid."

\* the distinct marker terms that occur in the lower-cased body
MarkerTerms == {dti_markers[k] : k \in 1..Len(dti_markers)}
MarkersInBody == {m \in MarkerTerms : OccursIn(m, page_lower(response.page.body))}

Classified == calls.classifier > 0
ModelRan == install.ml_model # NoModel /\ ~ml_input.raises /\ ml_input.features_ok

\* C19: predict_permit_ml always returns: the unavailable record when no model
\* is loaded, the features cannot be extracted or anything raises; otherwise
\* an available record whose label is "authentic" exactly when is_permit and
\* whose confidence is the probability of the permit class when the model has
\* predict_proba, else 0.85 for a positive and 0.15 for a negative prediction.
C19_ConfidenceIsPermitProbability ==
    Classified =>
        IF ModelRan
        THEN /\ ml_result.available
             /\ ml_result.is_permit = (ml_input.prediction = 1)
             /\ ml_result.label = (IF ml_result.is_permit THEN "authentic" ELSE "non_permit")
             /\ ml_result.confidence =
                    IF install.ml_model = ProbaModel
                    THEN TenK(ml_input.proba1)
                    ELSE IF ml_input.prediction = 1 THEN TenK(8500) ELSE TenK(1500)
        ELSE ml_result = MLUnavailable

\* C20: save_verification_record never fails the verification: it always
\* returns, whatever the file system and the record store do, it leaves the
\* result as it was and it has written the file record.
C20_SaveNeverFails ==
    save.called =>
        /\ ~save.raised
        /\ save.file_written
        /\ results = save.result_before
        /\ save.http # 500

\* a vector of 27 entries in the order of FEATURE_NAMES, 0 for every absent key
FixedVector ==
    /\ Len(features.vector) = 27
    /\ \A i \in 1..27 :
          features.vector[i] = IF FEATURE_NAMES[i] \in DOMAIN features.dict
                               THEN features.dict[FEATURE_NAMES[i]]
                               ELSE 0

\* C21: the vector always has 27 entries in the order of FEATURE_NAMES with 0
\* for every absent key, and an image on which one sub-extractor fails still
\* gets such a vector.
C21_VectorDespitePartialFailure ==
    /\ features.vector # Null => FixedVector
    /\ features.op = "vectorize" => features.vector # Null
    /\ (features.op = "extract" /\ image.readable) => features.vector # Null

\* the rules of the quality gate, on the image itself
Decodes == ~image.cv_error /\ image.readable
BigEnough == image.w >= 200 /\ image.h >= 200
SharpEnough == image.lap_var >= 30
WellLit == image.brightness >= 30 /\ image.brightness <= 230
GateRan == results.quality_check # Null

\* C22: check_image_quality passes exactly when the image decodes, is at
\* least 200 by 200, has a blur variance of at least 30 and a brightness in
\* [30, 230]; a failing image gets the message of the first rule it breaks in
\* the order decode, dimensions, blur, brightness; an internal error is a
\* failing result, and the gate touches nothing but its result.
C22_FirstFailingRuleReported ==
    GateRan =>
        /\ results.quality_check.passed <=> (Decodes /\ BigEnough /\ SharpEnough /\ WellLit)
        /\ results.quality_check.passed => results.quality_check.message = MSG_QUALITY_OK
        /\ image.cv_error => results.quality_check.message = MSG_QUALITY_ERROR
        /\ (~image.cv_error /\ ~image.readable) => results.quality_check.message = MSG_INVALID
        /\ (Decodes /\ ~BigEnough) => results.quality_check.message = MSG_TOO_SMALL
        /\ (Decodes /\ BigEnough /\ ~SharpEnough) => results.quality_check.message = MSG_BLURRY
        /\ (Decodes /\ BigEnough /\ SharpEnough /\ ~WellLit) =>
              results.quality_check.message = MSG_BRIGHTNESS
        /\ LastStage = "quality" =>
              /\ calls = NoCalls /\ scan = NoScan /\ ml_result = MLUnavailable
              /\ qr = Null /\ ocr = NoOcr /\ pc # "raised"

\* C22 witness: a blurred and too dark image is reported as blurred
C22_BlurReportedBeforeBrightness ==
    /\ GateRan
    /\ image.lap_var = 29
    /\ image.brightness = 29
    /\ ~results.quality_check.passed
    /\ results.quality_check.message = MSG_BLURRY

NamesInTheGap ==
    /\ pc = "done"
    /\ Confirmed
    /\ results.name_verification.checks_done >= 1
    /\ results.name_verification.score >= 400
    /\ results.name_verification.score < 650

\* C24: registry confirmed and a name score in [0.4, 0.65): the permit is
\* accepted at 0.90, or min(0.99, 0.90 + 0.04 * ml confidence) when the
\* classifier agrees, and name_mismatch is not set.
C24_GapAcceptedUnboosted ==
    NamesInTheGap =>
        /\ ~results.name_verification.overall_match
        /\ results.valid
        /\ results.permit_validation.passed
        /\ ~results.permit_validation.name_mismatch
        /\ ~results.permit_validation.pending_manual_review
        /\ results.confidence =
               IF MlAgrees
               THEN Min(Pct(99), Pct(90) + (4 * ml_result.confidence) \div 100)
               ELSE Pct(90)

\* C24 witness: business names that are half alike, the classifier agreeing
\* at 0.9: accepted at 0.936
C24_HalfAlikeAccepted ==
    /\ NamesInTheGap
    /\ results.name_verification.score = 500
    /\ results.name_verification.business_name_match = Flag(FALSE)
    /\ MlAgrees
    /\ ml_result.confidence = Pct(90)
    /\ results.valid
    /\ results.confidence = Pct(90) + Milli(36)

\* the same call with another OCR behaviour of the image, run to its end
WithOcr(oo) ==
    RunAlone(install, NewCall([user |-> user, image |-> image, x |-> ml_input, q |-> qr,
                               oo |-> oo, resp |-> response]))
SameDecision(c) ==
    /\ c.pc = "done"
    /\ c.results.valid = results.valid
    /\ c.results.confidence = results.confidence
    /\ c.results.permit_validation = results.permit_validation

C26_OnlyAllowListedHosts ==
    LET listed == scan.data.url.host \in DTI_DOMAINS
    IN  /\ (scan.ok /\ results.text_verification # Null /\ results.dti_url_valid) => listed
        /\ calls.fetch > 0 => listed
        /\ (pc = "done" /\ LastStage = "registry" /\ results.valid) => listed

\* C27: a permit is accepted only when a QR or barcode symbol was decoded from
\* one of the variants: a result whose payload is the OCR text of the image
\* (method "ocr-fallback") is never valid.
C27_OcrPayloadNeverAccepted ==
    (pc = "done" /\ scan.ok /\ scan.method = OCR_FALLBACK) => ~results.valid

\* C28: on the text-QR branch a permit is never accepted when the classifier
\* is available and predicts that the image is not a permit.
C28_ClassifierVetoOnTextQr ==
    (pc = "done" /\ LastStage = "text_qr" /\ ml_result.available /\ ~ml_result.is_permit) =>
        ~results.valid

\* C29: in every result returned valid equals permit_validation.passed,
\* name_mismatch or pending_manual_review imply not valid and are never both
\* set, the confidence lies in [0, 0.99] and the message is not empty.
C29_ResultIsWellFormed ==
    pc = "done" =>
        /\ results.valid = results.permit_validation.passed
        /\ results.permit_validation.name_mismatch => ~results.valid
        /\ results.permit_validation.pending_manual_review => ~results.valid
        /\ ~(results.permit_validation.name_mismatch
             /\ results.permit_validation.pending_manual_review)
        /\ results.confidence >= 0
        /\ results.confidence <= Pct(99)
        /\ results.permit_validation.message # ""

\* a call without classifier accepted on the text comparison alone
C29_TextOnlyAcceptance ==
    /\ pc = "done"
    /\ LastStage = "text_qr"
    /\ ~ml_result.available
    /\ results.valid
    /\ results.permit_validation.passed
    /\ results.permit_validation.message = MSG_TEXT_VERIFIED
    /\ results.confidence <= Pct(85)

\* C30: every save_verification_record call leaves its own file record: two
\* calls for the same user never write to the same record path, and the file
\* of a finished call holds that call's record alone.
C30_OwnRecordPerCall ==
    pc = "audit" =>
        \A i \in DOMAIN disk.saves :
            /\ \A j \in DOMAIN disk.saves :
                  (i # j /\ disk.saves[i].record_path # << >>
                         /\ disk.saves[i].user_id = disk.saves[j].user_id)
                      => disk.saves[i].record_path # disk.saves[j].record_path
            /\ disk.saves[i].pc = "saved"
                  => FileAt(disk.files, disk.saves[i].record_path).holds = <<i>>

====
